---- MODULE Spec2Model ----
(***************************************************************************)
(* The safety execution pipeline of db_safe_layer: statement analysis,     *)
(* dry-run estimation, risk classification, the confirmation gate, the     *)
(* snapshot / rollback engine and the run store.                           *)
(*                                                                         *)
(* A statement is its sqlglot syntax tree reduced to what the code reads:  *)
(* the class of the root node, the target table, the WHERE of the          *)
(* statement itself, whether a nested subquery carries a WHERE, and the    *)
(* data the statement writes.  The database is a relational store of       *)
(* tables (a column set and a list of rows each).                          *)
(***************************************************************************)
EXTENDS Integers, Sequences, FiniteSets, TLC

\* ------------------------------------------------------------------ bounds
\* Largest number of rows a table of the model holds.
MaxRows == 4
\* Number of submissions one behaviour makes.
MaxRuns == 1
\* Largest value of the wall clock (in seconds, the resolution of the ids).
MaxClock == 1
\* Number of direct writes by other clients of the database in one behaviour.
MaxWrites == 2
\* Number of direct snapshot and rollback calls in one behaviour.
MaxCalls == 2

\* Most audit steps of a run record read from the log directory.
MaxSteps == 2

\* -------------------------------------------------------- program constants
\* risk_policy.py:161 compares the estimate with 10000; the model keeps the
\* comparison and scales the number to the table sizes it can hold.
RowThreshold == 2
\* snapshot.py:61 keeps the first 1000 rows of a table; scaled likewise.
SampleCap == 2

\* ------------------------------------------------------------------- data
TableNames == {"person", "t2"}
Cols == {"a", "b"}
Values == {0, 1}

NoWhere == [col |-> "none", val |-> 0]
Wheres == {NoWhere} \cup [col : Cols, val : Values]

\* snapshot_id = None
NoId == -1

\* A table that does not exist.
NoTable == [exists |-> FALSE, cols |-> {}, rows |-> <<>>]

Table(cols, rows) == [exists |-> TRUE, cols |-> cols, rows |-> rows]

\* The row holding v in every column of cols.
RowOf(cols, v) == [c \in cols |-> v]

\* ------------------------------------------------------------- statements
\* kind is the sqlglot class of the parsed root ("ParseError": parse_one
\* raises; "Command": a statement sqlglot parses into a class none of the
\* checks below names, such as TRUNCATE).
Stmt(kind, table, where, nested, nvals, col, val) ==
    [kind |-> kind, table |-> table, where |-> where, nested |-> nested,
     nvals |-> nvals, col |-> col, val |-> val]

Kinds == {"Select", "SelectInto", "Union", "Insert", "InsertSelect", "Update", "Delete",
          "Drop", "Alter", "Create", "Schema", "Merge", "Grant", "Revoke",
          "Commit", "Rollback", "Analyze", "Comment", "Command", "ParseError"}

\* sqlglot.parse_one(raw_sql) raised (executor.py:196-206).
ParseFails(s) == s.kind = "ParseError"

\* isinstance(expression, exp.X): INSERT ... VALUES and INSERT ... SELECT
\* are both exp.Insert, and SELECT ... INTO <table> FROM ... is an
\* exp.Select (with an "into" argument).
IsInstance(s, cls) ==
    \/ s.kind = cls
    \/ cls = "Insert" /\ s.kind = "InsertSelect"
    \/ cls = "Select" /\ s.kind = "SelectInto"

\* The table the statement reads its rows from: s.table, but for
\* SELECT * INTO <s.table> FROM person.
From(s) == IF s.kind = "SelectInto" THEN "person" ELSE s.table

\* expression.args.get("where"): the WHERE of the statement itself.
OwnWhere(s) == s.where

\* expression.find(exp.Where): searches the whole tree, nested subqueries
\* included.
FindWhere(s) == s.where # NoWhere \/ s.nested

\* ------------------------------------------------------------ risk policy
RiskInfo(level, sql_type, reason) ==
    [risk_level |-> level, sql_type |-> sql_type, reason |-> reason]

\* risk_info = {}
NoRiskInfo == RiskInfo("", "", "")

\* The isinstance chain of analyze_risk, in its order.
BaseRisk(s) ==
    CASE IsInstance(s, "Drop") -> RiskInfo("CRITICAL", "Drop", "DROP")
      [] IsInstance(s, "Alter") -> RiskInfo("HIGH", "Alter", "ALTER")
      [] IsInstance(s, "Create") \/ IsInstance(s, "Schema") ->
            RiskInfo("HIGH", "Create", "CREATE")
      [] IsInstance(s, "Select") -> RiskInfo("LOW", "Select", "SELECT")
      [] IsInstance(s, "Insert") -> RiskInfo("MEDIUM", "Insert", "INSERT")
      [] IsInstance(s, "Update") ->
            IF ~FindWhere(s)
            THEN RiskInfo("HIGH", "Update", "UPDATE without WHERE")
            ELSE RiskInfo("MEDIUM", "Update", "UPDATE")
      [] IsInstance(s, "Delete") ->
            IF ~FindWhere(s)
            THEN RiskInfo("HIGH", "Delete", "DELETE without WHERE")
            ELSE RiskInfo("MEDIUM", "Delete", "DELETE")
      [] IsInstance(s, "Merge") -> RiskInfo("HIGH", "Merge", "MERGE")
      [] IsInstance(s, "Grant") -> RiskInfo("HIGH", "Grant", "GRANT")
      [] IsInstance(s, "Revoke") -> RiskInfo("HIGH", "Revoke", "REVOKE")
      [] IsInstance(s, "Commit") -> RiskInfo("INFO", "Commit", "COMMIT")
      [] IsInstance(s, "Rollback") -> RiskInfo("INFO", "Rollback", "ROLLBACK")
      [] IsInstance(s, "Analyze") -> RiskInfo("MEDIUM", "Analyze", "ANALYZE")
      [] IsInstance(s, "Comment") -> RiskInfo("LOW", "Comment", "comment")
      [] OTHER -> RiskInfo("unknown", "unknown", "Unrecognized SQL type")

\* Escalate, raising MEDIUM to HIGH on a large estimate.
EscalateMedium(level, estimated_rows) ==
    IF estimated_rows > RowThreshold
    THEN (IF level = "MEDIUM" THEN "HIGH" ELSE level)
    ELSE level

\* level = "medium" if level == "low" else level, when estimated_rows > 10000.
Escalate(level, estimated_rows) ==
    IF estimated_rows > RowThreshold
    THEN (IF level = "low" THEN "medium" ELSE level)
    ELSE level

analyze_risk(s, estimated_rows) ==
    LET base == BaseRisk(s)
    IN  RiskInfo(Escalate(base.risk_level, estimated_rows),
                 base.sql_type, base.reason)

\* --------------------------------------------------------- dry-run rewrite
Probe(form, kind, table, where, n) ==
    [form |-> form, kind |-> kind, table |-> table, where |-> where, n |-> n]

\* rewrite_to_count returned None.
NoProbe == Probe("none", "", "", NoWhere, 0)

\* rewrite_to_count, counting the whole target table of an UPDATE or DELETE.
RewriteWholeTable(s) ==
    CASE ParseFails(s) -> NoProbe
      [] IsInstance(s, "Select") \/ IsInstance(s, "Union") ->
            Probe("subquery", s.kind, s.table, s.where, 0)
      [] IsInstance(s, "Delete") \/ IsInstance(s, "Update") ->
            Probe("table", s.kind, s.table, NoWhere, 0)
      [] IsInstance(s, "Insert") ->
            IF s.kind = "Insert"
            THEN Probe("const", s.kind, "", NoWhere, s.nvals)
            ELSE NoProbe
      [] OTHER -> NoProbe

rewrite_to_count(s) ==
    CASE ParseFails(s) -> NoProbe
      [] IsInstance(s, "Select") \/ IsInstance(s, "Union") ->
            \* SELECT COUNT(*) AS estimated_rows FROM (<statement>) AS t
            Probe("subquery", s.kind, s.table, s.where, 0)
      [] IsInstance(s, "Delete") \/ IsInstance(s, "Update") ->
            \* SELECT COUNT(*) AS estimated_rows FROM <table> [<own WHERE>]
            Probe("table", s.kind, s.table, OwnWhere(s), 0)
      [] IsInstance(s, "Insert") ->
            IF s.kind = "Insert"
            THEN \* expression.expression is exp.Values
                 Probe("const", s.kind, "", NoWhere, s.nvals)
            ELSE \* expression.this is the target table, never a Select
                 NoProbe
      [] OTHER -> NoProbe

\* ---------------------------------------------------------------- database
WhereOk(t, w) == w = NoWhere \/ w.col \in t.cols

Match(row, w) == w = NoWhere \/ row[w.col] = w.val

Filter(rows, w) == SelectSeq(rows, LAMBDA r : Match(r, w))

Reject(rows, w) == SelectSeq(rows, LAMBDA r : ~Match(r, w))

Range(seq) == {seq[i] : i \in 1..Len(seq)}

\* What the database answers to a counting probe: ok = FALSE when it raises.
EvalProbe(d, p) ==
    CASE p.form = "const" -> [ok |-> TRUE, n |-> p.n]
      [] p.form \in {"table", "subquery"} ->
            LET t == d[p.table]
            IN  IF ~(t.exists /\ WhereOk(t, p.where))
                THEN [ok |-> FALSE, n |-> 0]
                ELSE IF p.kind = "SelectInto"
                THEN \* INTO is not accepted inside a subquery
                     [ok |-> FALSE, n |-> 0]
                ELSE IF p.kind = "Union"
                THEN [ok |-> TRUE, n |-> Cardinality(Range(Filter(t.rows, p.where)))]
                ELSE [ok |-> TRUE, n |-> Len(Filter(t.rows, p.where))]
      [] OTHER -> [ok |-> FALSE, n |-> 0]

\* rs.returns_rows is false: [{"affected_rows": rs.rowcount}]
Affected(n) == << [affected_rows |-> n] >>

ExecResult(ok, d, rows) == [ok |-> ok, db |-> d, rows |-> rows]

\* The columns CREATE TABLE gives the new table ("none": no column at all).
CreateCols(s) == IF s.col = "none" THEN {} ELSE Cols

\* The effect of the statement on the database d and the rows it returns;
\* ok = FALSE when the database raises (d is then left as it was).
\* PostgreSQL accepts a table without columns, SQLite does not.
Exec(dia, d, s) ==
    LET t == d[s.table]
        fail == ExecResult(FALSE, d, <<>>)
    IN  CASE s.kind \in {"Select", "Union"} ->
                IF t.exists /\ WhereOk(t, s.where)
                THEN ExecResult(TRUE, d, Filter(t.rows, s.where))
                ELSE fail
          [] s.kind = "SelectInto" ->
                \* creates s.table from the rows selected; PostgreSQL only
                IF dia = "postgresql" /\ d[From(s)].exists /\ ~t.exists
                THEN ExecResult(TRUE,
                        [d EXCEPT ![s.table] =
                            Table(d[From(s)].cols, d[From(s)].rows)],
                        Affected(Len(d[From(s)].rows)))
                ELSE fail
          [] s.kind = "Insert" ->
                IF t.exists
                THEN ExecResult(TRUE,
                        [d EXCEPT ![s.table].rows =
                            @ \o [i \in 1..s.nvals |-> RowOf(t.cols, s.val)]],
                        Affected(s.nvals))
                ELSE fail
          [] s.kind = "InsertSelect" ->
                IF t.exists /\ WhereOk(t, s.where)
                THEN ExecResult(TRUE,
                        [d EXCEPT ![s.table].rows = @ \o Filter(t.rows, s.where)],
                        Affected(Len(Filter(t.rows, s.where))))
                ELSE fail
          [] s.kind = "Update" ->
                IF t.exists /\ WhereOk(t, s.where) /\ s.col \in t.cols
                THEN ExecResult(TRUE,
                        [d EXCEPT ![s.table].rows =
                            [i \in 1..Len(t.rows) |->
                                IF Match(t.rows[i], s.where)
                                THEN [t.rows[i] EXCEPT ![s.col] = s.val]
                                ELSE t.rows[i]]],
                        Affected(Len(Filter(t.rows, s.where))))
                ELSE fail
          [] s.kind = "Delete" ->
                IF t.exists /\ WhereOk(t, s.where)
                THEN ExecResult(TRUE,
                        [d EXCEPT ![s.table].rows = Reject(t.rows, s.where)],
                        Affected(Len(Filter(t.rows, s.where))))
                ELSE fail
          [] s.kind = "Drop" ->
                IF t.exists
                THEN ExecResult(TRUE, [d EXCEPT ![s.table] = NoTable], Affected(-1))
                ELSE fail
          [] s.kind = "Create" ->
                IF ~t.exists /\ (CreateCols(s) # {} \/ dia = "postgresql")
                THEN ExecResult(TRUE,
                        [d EXCEPT ![s.table] = Table(CreateCols(s), <<>>)],
                        Affected(-1))
                ELSE fail
          [] s.kind = "Alter" ->
                \* ALTER TABLE <table> DROP COLUMN <col>
                IF /\ t.exists /\ s.col \in t.cols
                   /\ (t.cols # {s.col} \/ dia = "postgresql")
                THEN ExecResult(TRUE,
                        [d EXCEPT ![s.table] =
                            Table(t.cols \ {s.col},
                                  [i \in 1..Len(t.rows) |->
                                      [c \in t.cols \ {s.col} |-> t.rows[i][c]]])],
                        Affected(-1))
                ELSE fail
          [] s.kind \in {"Commit", "Rollback", "Grant", "Revoke", "Analyze",
                         "Comment"} ->
                ExecResult(TRUE, d, Affected(-1))
          [] OTHER -> fail

\* ---------------------------------------------------------------- snapshots
\* A value as json.dump(..., default=str) followed by json.load gives it
\* back: the cell values of the model are JSON integers, which the encoder
\* writes as numbers and the decoder reads as the same numbers.
JsonValue(v) == v

JsonRow(row) == [c \in DOMAIN row |-> JsonValue(row[c])]

\* A table the snapshot does not hold.
NoCapture == [present |-> FALSE, structure |-> {}, row_count |-> 0,
              data_sample |-> <<>>, has_more |-> FALSE]

\* snapshot_meta["tables"][table_name] of create_snapshot.
CaptureTable(t) ==
    LET data == [i \in 1..Len(t.rows) |-> JsonRow(t.rows[i])]
    IN  [present |-> TRUE,
         structure |-> t.cols,
         row_count |-> Len(data),
         data_sample |-> IF Len(data) > SampleCap
                         THEN SubSeq(data, 1, SampleCap) ELSE data,
         has_more |-> Len(data) > SampleCap]

\* The loop over inspector.get_table_names().
CaptureTables(d) ==
    [n \in TableNames |-> IF d[n].exists THEN CaptureTable(d[n]) ELSE NoCapture]

SnapshotMeta(id, ts, tables) ==
    [snapshot_id |-> id, timestamp |-> ts, tables |-> tables, intact |-> TRUE]

\* A snapshot file whose write stopped part-way: json.load raises on it.
PartialFile(id) ==
    [snapshot_id |-> id, timestamp |-> 0,
     tables |-> [n \in TableNames |-> NoCapture], intact |-> FALSE]

\* A file store: path -> content.  open(path, "w") replaces what is there.
Put(store, key, value) ==
    [k \in DOMAIN store \cup {key} |-> IF k = key THEN value ELSE store[k]]

\* create_snapshot(snapshot_id): the store afterwards and whether it raised.
\*   capture_fail  the session or a SELECT raises before anything is written
\*   write_fail    the file is opened for writing and the dump does not end
create_snapshot(store, d, id, ts, outcome) ==
    CASE outcome = "capture_fail" -> [raised |-> TRUE, store |-> store]
      [] outcome = "write_fail" ->
            [raised |-> TRUE, store |-> Put(store, id, PartialFile(id))]
      [] OTHER ->
            [raised |-> FALSE,
             store |-> Put(store, id, SnapshotMeta(id, ts, CaptureTables(d)))]

LogEntry(id, ts, operation_type) ==
    [snapshot_id |-> id, timestamp |-> ts, operation_type |-> operation_type]

SnapOutcomes == {"ok", "capture_fail", "write_fail", "log_fail"}

\* create_snapshot_for_operation: the id is made from the clock, every
\* exception is caught and the id is returned all the same.
\*   raised       whether the call raises to the caller
\*   warned       whether it printed "Warning: Failed to create snapshot"
\*   snapshot_id  the id the caller reads from the dict or string returned
create_snapshot_for_operation(store, log, d, ts, operation_type, outcome) ==
    LET id == ts
        made == create_snapshot(store, d, id, ts, outcome)
    IN  IF made.raised \/ outcome = "log_fail"
        THEN \* except Exception: print the warning, return snapshot_id
             [raised |-> FALSE, warned |-> TRUE, snapshot_id |-> id,
              store |-> made.store, log |-> log]
        ELSE [raised |-> FALSE, warned |-> FALSE, snapshot_id |-> id,
              store |-> made.store,
              log |-> Append(log, LogEntry(id, ts, operation_type))]

\* load_snapshot: FileNotFoundError or a JSON error instead of a snapshot.
CanLoad(store, id) == id \in DOMAIN store /\ store[id].intact

\* ------------------------------------------------------------------ restore
TableOrder == <<"person", "t2">>

\* NULL, for a column the INSERT does not name.
Null == -1

\* safe_drop_table: DROP TABLE IF EXISTS ... [CASCADE]
DropTable(d, n) == [d EXCEPT ![n] = NoTable]

\* INSERT INTO <table> (<keys of the first row>) VALUES (...), for every row.
InsertRows(t, data_rows) ==
    IF data_rows = <<>>
    THEN t
    ELSE LET keys == DOMAIN data_rows[1]
         IN  [t EXCEPT !.rows = @ \o
                [i \in 1..Len(data_rows) |->
                    [c \in t.cols |->
                        IF c \in keys THEN data_rows[i][c] ELSE Null]]]

\* The statements the session of rollback_to_snapshot executes, in order.
RestoreOp(op, table, info) == [op |-> op, table |-> table, info |-> info]

\* Cleanup phase: every table of current_tables - snapshot_tables is dropped.
RECURSIVE CleanupOps(_, _, _)
CleanupOps(d, snap, i) ==
    IF i > Len(TableOrder)
    THEN <<>>
    ELSE LET n == TableOrder[i]
         IN  (IF d[n].exists /\ ~snap.tables[n].present
              THEN << RestoreOp("drop", n, NoCapture) >> ELSE <<>>)
             \o CleanupOps(d, snap, i + 1)

\* One turn of the recovery loop: drop; skip the table when its structure
\* is empty; else create it and, when there are sample rows, insert them.
TableOps(n, info) ==
    << RestoreOp("drop", n, info) >>
    \o (IF info.structure = {}
        THEN <<>>
        ELSE << RestoreOp("create", n, info) >>
             \o (IF info.data_sample # <<>>
                 THEN << RestoreOp("insert", n, info) >> ELSE <<>>))

RECURSIVE RecoveryOps(_, _)
RecoveryOps(snap, i) ==
    IF i > Len(TableOrder)
    THEN <<>>
    ELSE LET n == TableOrder[i]
         IN  (IF snap.tables[n].present
              THEN TableOps(n, snap.tables[n]) ELSE <<>>)
             \o RecoveryOps(snap, i + 1)

RestoreOps(d, snap) == CleanupOps(d, snap, 1) \o RecoveryOps(snap, 1)

ApplyOp(d, o) ==
    CASE o.op = "drop" -> DropTable(d, o.table)
      [] o.op = "create" ->
            [d EXCEPT ![o.table] = Table(o.info.structure, <<>>)]
      [] o.op = "insert" ->
            [d EXCEPT ![o.table] = InsertRows(@, o.info.data_sample)]
      [] OTHER -> d

RECURSIVE ApplyOps(_, _, _)
ApplyOps(d, ops, k) ==
    IF k = 0 THEN d ELSE ApplyOp(ApplyOps(d, ops, k - 1), ops[k])

\* The database after the session of rollback_to_snapshot commits.
Restored(d, snap) ==
    LET ops == RestoreOps(d, snap) IN ApplyOps(d, ops, Len(ops))

\* The statements that stay applied when statement number k raises and the
\* session is rolled back.  PostgreSQL runs all of them in the transaction
\* the session opened.  The sqlite3 driver opens a transaction only before
\* the first INSERT: the PRAGMA, DROP and CREATE statements before it have
\* already taken effect.
Survive(dialect, ops, k) ==
    IF dialect = "sqlite"
    THEN LET inserts == {i \in 1..(k - 1) : ops[i].op = "insert"}
         IN  IF inserts = {} THEN k - 1
             ELSE (CHOOSE i \in inserts : \A j \in inserts : i <= j) - 1
    ELSE 0

\* The restore proper, lines 95-179: the snapshot is loaded and its
\* statements run in one session.
RestoreFrom(store, d, dialect, id, failAt) ==
    IF ~CanLoad(store, id)
    THEN [status |-> "not_found", db |-> d]
    ELSE LET ops == RestoreOps(d, store[id])
         IN  IF failAt = 0
             THEN [status |-> "success", db |-> ApplyOps(d, ops, Len(ops))]
             ELSE [status |-> "failed",
                   db |-> ApplyOps(d, ops, Survive(dialect, ops, failAt))]

\* rollback_to_snapshot without the test of the confirm flag.
RollbackUnconfirmed(store, d, dialect, id, confirm, failAt) ==
    RestoreFrom(store, d, dialect, id, failAt)

\* rollback_to_snapshot(snapshot_id, confirm).  failAt = 0: no statement
\* raises; failAt = k: statement number k of the session raises.
rollback_to_snapshot(store, d, dialect, id, confirm, failAt) ==
    IF ~confirm
    THEN [status |-> "refused", db |-> d]
    ELSE RestoreFrom(store, d, dialect, id, failAt)

\* -------------------------------------------------------------------- state
VARIABLES
    db,         \* the database: table name -> table
    snapshots,  \* SNAPSHOTS_DIR: snapshot id -> snapshot file
    snapLog,    \* snapshots_log.json: the list of log entries
    runs,       \* RUNS_DIR: run id -> run file
    now,        \* datetime.utcnow(), in seconds
    pc,         \* where the submission in flight stands ("idle": none)
    cur,        \* the locals of execute_sql_with_safety for that submission
    events,     \* what that submission did to the database and the operator
    db0,        \* the database when that submission was made
    nRuns,      \* submissions made so far
    nWrites,    \* direct writes made so far
    last,       \* the latest snapshot / rollback call and its outcome
    dialect,    \* db.engine.dialect.name of the connected database
    nCalls      \* direct snapshot and rollback calls made so far

vars == <<db, snapshots, snapLog, runs, now, pc, cur, events, db0, nRuns,
          nWrites, last, dialect, nCalls>>

\* result = None / a list of rows
NoResult == [none |-> TRUE, rows |-> <<>>]

Result(rows) == [none |-> FALSE, rows |-> rows]

\* One entry of audit_steps.
Step(step_id, action, status, error, outputs) ==
    [step_id |-> step_id, action |-> action, status |-> status,
     error |-> error, outputs |-> outputs]

NoOutputs == [empty |-> TRUE]

\* The statements a behaviour submits:
\*   SELECT * FROM person
\*   SELECT * INTO t2 FROM person
\*   SELECT * FROM person UNION SELECT * FROM person
\*   INSERT INTO person VALUES (1, 1), (1, 1)
\*   INSERT INTO person SELECT * FROM person WHERE a = 1
\*   UPDATE person SET b = 1
\*   UPDATE person SET b = (SELECT MAX(b) FROM person WHERE a = 1)
\*   DELETE FROM person WHERE a = 1
\*   DROP TABLE person
\*   CREATE TABLE t2 ()
\*   ALTER TABLE person DROP COLUMN b
\*   COMMIT
\*   TRUNCATE TABLE person     (parsed, but no class the policy names)
\*   SELEC * FORM person       (does not parse)
Statements ==
    { Stmt("Select", "person", NoWhere, FALSE, 0, "a", 0),
      Stmt("SelectInto", "t2", NoWhere, FALSE, 0, "a", 0),
      Stmt("Union", "person", NoWhere, FALSE, 0, "a", 0),
      Stmt("Insert", "person", NoWhere, FALSE, 2, "a", 1),
      Stmt("InsertSelect", "person", [col |-> "a", val |-> 1], TRUE, 0, "a", 0),
      Stmt("Update", "person", NoWhere, FALSE, 0, "b", 1),
      Stmt("Update", "person", NoWhere, TRUE, 0, "b", 1),
      Stmt("Delete", "person", [col |-> "a", val |-> 1], FALSE, 0, "a", 0),
      Stmt("Drop", "person", NoWhere, FALSE, 0, "a", 0),
      Stmt("Create", "t2", NoWhere, FALSE, 0, "none", 0),
      Stmt("Alter", "person", NoWhere, FALSE, 0, "b", 0),
      Stmt("Commit", "person", NoWhere, FALSE, 0, "a", 0),
      Stmt("Command", "person", NoWhere, FALSE, 0, "a", 0),
      Stmt("ParseError", "person", NoWhere, FALSE, 0, "a", 0) }

\* The rows the statement adds keep the table within MaxRows.
Fits(d, s) ==
    LET t == d[s.table]
    IN  CASE s.kind = "Insert" -> Len(t.rows) + s.nvals <= MaxRows
          [] s.kind = "InsertSelect" ->
                Len(t.rows) + Len(SelectSeq(t.rows,
                    LAMBDA r : s.where.col \in DOMAIN r /\ Match(r, s.where)))
                    <= MaxRows
          [] OTHER -> TRUE

Row(a, b) == [a |-> a, b |-> b]

InitTables ==
    { [n \in TableNames |->
        IF n = "person" THEN Table(Cols, rows) ELSE NoTable] :
      rows \in { << Row(0, 0), Row(1, 0) >>,
                 << Row(0, 0), Row(1, 0), Row(1, 1) >> } }

Dialects == {"postgresql", "sqlite"}

\* last: the call, the snapshot id it names, how it ended, the database
\* before it, and (rollback) whether it follows the creation of that
\* snapshot with nothing in between.
Call(op, id, status, before, fresh) ==
    [op |-> op, id |-> id, status |-> status, before |-> before,
     fresh |-> fresh]

\* The locals as execute_sql_with_safety sets them at lines 190-194.
Locals(s) ==
    [sql |-> s, audit_steps |-> <<>>, snapshot_id |-> NoId,
     result |-> NoResult, risk_level |-> "UNKNOWN", risk_info |-> NoRiskInfo,
     estimated_rows |-> -1, dry_run_sql |-> NoProbe, summary |-> <<>>]

Idle == Locals(Stmt("ParseError", "person", NoWhere, FALSE, 0, "a", 0))

Init ==
    /\ db \in InitTables
    /\ snapshots = <<>>
    /\ snapLog = <<>>
    /\ runs = <<>>
    /\ now = 0
    /\ pc = "idle"
    /\ cur = Idle
    /\ events = <<>>
    /\ db0 = db
    /\ nRuns = 0
    /\ nWrites = 0
    /\ last = Call("none", NoId, "", db, FALSE)
    /\ dialect \in Dialects
    /\ nCalls = 0

\* ----------------------------------------------------------------- pipeline
\* run_sql: a session is opened, the statement executed, and the session
\* committed (rolled back when the statement raises) and closed.
\* dbFail: the database cannot be reached or drops the connection.
\* SessionEvents of a session that is kept for the rest of the run: neither
\* committed nor closed after its statement.
SessionEventsHeld(what, ok) == << "open", what >>

\* SessionEvents without the finally clause: the session stays open when
\* the block raises.
SessionEventsNoFinally(what, ok) ==
    IF ok THEN << "open", what, "commit", "close" >>
    ELSE << "open", what, "rollback" >>

SessionEvents(what, ok) ==
    << "open", what, IF ok THEN "commit" ELSE "rollback", "close" >>

\* run_sql, with the session committed although the connection failed
\* after the statement.
RunSqlCommitsOnFailure(dia, d, s, dbFail) ==
    IF dbFail THEN ExecResult(FALSE, Exec(dia, d, s).db, <<>>)
    ELSE Exec(dia, d, s)

run_sql(dia, d, s, dbFail) ==
    IF dbFail THEN ExecResult(FALSE, d, <<>>) ELSE Exec(dia, d, s)

\* run_dry_estimate, reporting 0 when the estimate is not available.
RunDryEstimateZero(d, s, dbFail) ==
    LET count_sql == rewrite_to_count(s)
        res == IF dbFail THEN [ok |-> FALSE, n |-> 0]
               ELSE EvalProbe(d, count_sql)
    IN  IF count_sql = NoProbe
        THEN [estimated_rows |-> 0, count_sql |-> NoProbe, ran |-> FALSE,
              ok |-> FALSE, db |-> d]
        ELSE [estimated_rows |-> IF res.ok THEN res.n ELSE 0,
              count_sql |-> count_sql, ran |-> TRUE, ok |-> res.ok, db |-> d]

\* run_dry_estimate, passing the statement itself to run_sql.
RunDryEstimateExecutes(d, s, dbFail) ==
    LET count_sql == rewrite_to_count(s)
        res == IF dbFail THEN [ok |-> FALSE, n |-> 0]
               ELSE EvalProbe(d, count_sql)
    IN  IF count_sql = NoProbe
        THEN [estimated_rows |-> -1, count_sql |-> NoProbe, ran |-> FALSE,
              ok |-> FALSE, db |-> d]
        ELSE [estimated_rows |-> IF res.ok THEN res.n ELSE -1,
              count_sql |-> count_sql, ran |-> TRUE, ok |-> res.ok,
              db |-> run_sql("postgresql", d, s, dbFail).db]

\* run_dry_estimate: (estimated_rows, count_sql), whether run_sql ran, and
\* the database afterwards: the probe is a SELECT COUNT(*) (or a SELECT of
\* a constant), which the session commits without any table changing.
run_dry_estimate(d, s, dbFail) ==
    LET count_sql == rewrite_to_count(s)
        res == IF dbFail THEN [ok |-> FALSE, n |-> 0]
               ELSE EvalProbe(d, count_sql)
    IN  IF count_sql = NoProbe
        THEN [estimated_rows |-> -1, count_sql |-> NoProbe, ran |-> FALSE,
              ok |-> FALSE, db |-> d]
        ELSE [estimated_rows |-> IF res.ok THEN res.n ELSE -1,
              count_sql |-> count_sql, ran |-> TRUE, ok |-> res.ok, db |-> d]

\* Lines 190-230: the locals, the parse and the precheck step.
Begin(s) ==
    /\ pc = "idle"
    /\ Fits(db, s)
    /\ cur' = [Locals(s) EXCEPT
                !.risk_info = IF ParseFails(s)
                              THEN RiskInfo("UNKNOWN", "UNKNOWN",
                                            "SQL Parsing failed")
                              ELSE NoRiskInfo,
                !.audit_steps =
                    << Step(1, "precheck", "success", "",
                            IF ParseFails(s) THEN NoOutputs
                            ELSE [operation_type |-> s.kind,
                                  tables |-> {s.table},
                                  predicate |-> OwnWhere(s)]) >>]
    /\ pc' = "dry_run"
    /\ events' = <<>>
    /\ db0' = db
    /\ nRuns' = nRuns + 1
    /\ UNCHANGED <<db, snapshots, snapLog, runs, now, nWrites, last, dialect, nCalls>>

\* safe_exec(sql) is called.
Submit(s) == nRuns < MaxRuns /\ Begin(s)

\* Lines 233-254.
DryRun ==
    /\ pc = "dry_run"
    /\ \E dbFail \in BOOLEAN :
        LET dry == run_dry_estimate(db, cur.sql, dbFail)
        IN  /\ dbFail => dry.ran
            /\ cur' = [cur EXCEPT
                        !.estimated_rows = dry.estimated_rows,
                        !.dry_run_sql = dry.count_sql,
                        !.audit_steps = Append(@,
                            Step(2, "dry_run", "success", "",
                                 [estimated_rows |-> dry.estimated_rows,
                                  dry_run_sql |-> dry.count_sql]))]
            /\ events' = IF dry.ran
                         THEN events \o SessionEvents("probe", dry.ok)
                         ELSE events
            /\ db' = dry.db
    /\ pc' = "analyze_risk"
    /\ UNCHANGED <<snapshots, snapLog, runs, now, db0, nRuns, nWrites, last, dialect, nCalls>>

\* Lines 259-287.  raised: analyze_risk raises.
AnalyzeRisk ==
    /\ pc = "analyze_risk"
    /\ \E raised \in BOOLEAN :
        /\ raised => ~ParseFails(cur.sql)
        /\ cur' =
            IF ParseFails(cur.sql)
            THEN [cur EXCEPT !.audit_steps = Append(@,
                    Step(3, "analyze_risk", "success", "", cur.risk_info))]
            ELSE IF raised
            THEN LET info == IF cur.risk_info = NoRiskInfo
                             THEN RiskInfo("UNKNOWN", "UNKNOWN",
                                           "Risk analysis failed")
                             ELSE cur.risk_info
                 IN  [cur EXCEPT
                        !.risk_info = info,
                        !.risk_level = IF cur.risk_info = NoRiskInfo
                                       THEN "UNKNOWN" ELSE @,
                        !.audit_steps = Append(@,
                            Step(3, "analyze_risk", "error", "raised",
                                 NoOutputs))]
            ELSE LET info == analyze_risk(cur.sql, cur.estimated_rows)
                 IN  [cur EXCEPT
                        !.risk_info = info,
                        !.risk_level = info.risk_level,
                        !.audit_steps = Append(@,
                            Step(3, "analyze_risk", "success", "", info))]
    /\ pc' = "decide"
    /\ UNCHANGED <<db, snapshots, snapLog, runs, now, events, db0, nRuns,
                   nWrites, last, dialect, nCalls>>

\* Route, refusing only the upper-case spelling of the level.
RouteUpperOnly(risk_level) ==
    IF risk_level \in {"LOW", "INFO"} THEN "direct"
    ELSE IF risk_level = "UNKNOWN" THEN "refuse"
    ELSE "confirm"

\* Route, with MEDIUM executed directly as well.
RouteMediumDirect(risk_level) ==
    IF risk_level \in {"LOW", "INFO", "MEDIUM"} THEN "direct"
    ELSE IF risk_level = "UNKNOWN" \/ risk_level = "unknown" THEN "refuse"
    ELSE "confirm"

\* The branch of lines 292 / 315 / 329 the risk level selects.
Route(risk_level) ==
    IF risk_level \in {"LOW", "INFO"} THEN "direct"
    ELSE IF risk_level = "UNKNOWN" \/ risk_level = "unknown" THEN "refuse"
    ELSE "confirm"

\* AfterExecute, issuing the statement again when it raised.
AfterExecuteRetry(ok) == IF ok THEN "summarize" ELSE "execute"

\* Lines 308-314 and 403-409: the except clause records the error and the
\* run goes on to the summary, as it does after a success.
AfterExecute(ok) == "summarize"

\* ExecuteStep, returning an empty result when the statement raised.
ExecuteStepEmptyResult(step_id, dbFail) ==
    LET res == run_sql(dialect, db, cur.sql, dbFail)
    IN  /\ pc' = AfterExecute(res.ok)
        /\ db' = res.db
        /\ cur' = [cur EXCEPT
                    !.result = Result(res.rows),
                    !.audit_steps = Append(@,
                        IF res.ok
                        THEN Step(step_id, "execute_sql", "success", "",
                                  [result |-> res.rows,
                                   result_count |-> Len(res.rows)])
                        ELSE Step(step_id, "execute_sql", "error",
                                  "execution failed", NoOutputs))]
        /\ events' = events \o SessionEvents("exec", res.ok)

\* The execute_sql step of lines 294-314 and 390-409.
ExecuteStep(step_id, dbFail) ==
    LET res == run_sql(dialect, db, cur.sql, dbFail)
    IN  /\ pc' = AfterExecute(res.ok)
        /\ db' = res.db
        /\ cur' = [cur EXCEPT
                    !.result = IF res.ok THEN Result(res.rows) ELSE @,
                    !.audit_steps = Append(@,
                        IF res.ok
                        THEN Step(step_id, "execute_sql", "success", "",
                                  [result |-> res.rows,
                                   result_count |-> Len(res.rows)])
                        ELSE Step(step_id, "execute_sql", "error",
                                  "execution failed", NoOutputs))]
        /\ events' = events \o SessionEvents("exec", res.ok)

ExecuteDirect ==
    /\ pc = "decide"
    /\ Route(cur.risk_level) = "direct"
    /\ \E dbFail \in BOOLEAN : ExecuteStep(4, dbFail)
    /\ UNCHANGED <<snapshots, snapLog, runs, now, db0, nRuns, nWrites, last, dialect, nCalls>>

\* Lines 315-328.
Refuse ==
    /\ pc = "decide"
    /\ Route(cur.risk_level) = "refuse"
    /\ cur' = [cur EXCEPT !.audit_steps = Append(@,
                Step(4, "execute_sql", "error",
                     "Unrecognized SQL type, execution refused", NoOutputs))]
    /\ pc' = "summarize"
    /\ UNCHANGED <<db, snapshots, snapLog, runs, now, events, db0, nRuns,
                   nWrites, last, dialect, nCalls>>

\* What the operator types at the prompt (the line input() returns).
Choices == {"y", " YES ", "n", "No", "maybe", ""}

\* choice.strip().lower()
Normalize(choice) ==
    CASE choice = " YES " -> "yes"
      [] choice = "No" -> "no"
      [] OTHER -> choice

\* Answer, with the empty line taken as a yes.
AnswerDefaultYes(choice) ==
    IF Normalize(choice) \in {"yes", "y", ""} THEN "approve"
    ELSE IF Normalize(choice) \in {"no", "n"} THEN "deny"
    ELSE "again"

\* cli_user_confirmation, lines 161-168: what one answer resolves to.
Answer(choice) ==
    IF Normalize(choice) \in {"yes", "y"} THEN "approve"
    ELSE IF Normalize(choice) \in {"no", "n"} THEN "deny"
    ELSE "again"

\* AfterConfirm, going on to the snapshot whatever the answer.
AfterConfirmFallThrough(user_confirmed) == "snapshot"

\* AfterConfirm, going from the approval straight to the execution.
AfterConfirmNoSnapshot(user_confirmed) ==
    IF ~user_confirmed THEN "summarize" ELSE "execute"

\* Line 333: where the run goes once the gate has resolved.
AfterConfirm(user_confirmed) ==
    IF ~user_confirmed THEN "summarize" ELSE "snapshot"

\* cli_user_confirmation (one turn of its loop) and lines 333-353.
Confirm(choice) ==
    /\ pc = "decide"
    /\ Route(cur.risk_level) = "confirm"
    /\ IF Answer(choice) = "approve"
       THEN /\ cur' = [cur EXCEPT !.audit_steps = Append(@,
                        Step(4, "User_confirmation", "success", "",
                             [user_choice |-> "Yes"]))]
            /\ events' = events \o << "prompt", choice, "approve" >>
            /\ pc' = AfterConfirm(TRUE)
       ELSE IF Answer(choice) = "deny"
       THEN /\ cur' = [cur EXCEPT !.audit_steps = Append(@,
                        Step(4, "User_confirmation", "cancelled", "",
                             [user_choice |-> "No"]))]
            /\ events' = events \o << "prompt", choice, "deny" >>
            /\ pc' = AfterConfirm(FALSE)
       ELSE \* "Please enter yes or no": the loop asks again
            /\ UNCHANGED <<cur, events, pc>>
    /\ UNCHANGED <<db, snapshots, snapLog, runs, now, db0, nRuns, nWrites, last, dialect, nCalls>>

\* Lines 355-362: the create_snapshot step begins.
SnapshotBegin ==
    /\ pc = "snapshot"
    /\ events' = Append(events, "snap_begin")
    /\ pc' = "snapshotting"
    /\ UNCHANGED <<db, snapshots, snapLog, runs, now, cur, db0, nRuns,
                   nWrites, last, dialect, nCalls>>

\* Lines 363-387, with create_snapshot_for_operation and create_snapshot.
SnapshotCapture ==
    /\ pc = "snapshotting"
    /\ \E outcome \in SnapOutcomes :
        LET r == create_snapshot_for_operation(snapshots, snapLog, db, now,
                    cur.risk_info.sql_type, outcome)
        IN  /\ snapshots' = r.store
            /\ snapLog' = r.log
            /\ cur' = IF r.raised
                      THEN [cur EXCEPT !.audit_steps = Append(@,
                              Step(5, "create_snapshot", "error",
                                   "Failed to create snapshot", NoOutputs))]
                      ELSE [cur EXCEPT
                              !.snapshot_id = r.snapshot_id,
                              !.audit_steps = Append(@,
                                Step(5, "create_snapshot", "success", "",
                                     [snapshot_id |-> r.snapshot_id]))]
            /\ events' = events
                            \o SessionEvents("capture", outcome # "capture_fail")
                            \o (IF r.warned THEN << "snap_warning" >> ELSE <<>>)
                            \o << "snap_end" >>
    /\ pc' = "execute"
    /\ UNCHANGED <<db, runs, now, db0, nRuns, nWrites, last, dialect, nCalls>>

ExecuteApproved ==
    /\ pc = "execute"
    /\ \E dbFail \in BOOLEAN : ExecuteStep(6, dbFail)
    /\ UNCHANGED <<snapshots, snapLog, runs, now, db0, nRuns, nWrites, last, dialect, nCalls>>

\* list(first.values())[0]
FirstValue(row) ==
    IF "affected_rows" \in DOMAIN row THEN row["affected_rows"]
    ELSE IF "a" \in DOMAIN row THEN row["a"] ELSE row["b"]

\* Lines 411-429: the summary text, as the parts it is made of after the
\* time stamp that opens it.
SummaryOf(c) ==
    LET operation_type == IF c.risk_info = NoRiskInfo THEN "UNKNOWN"
                          ELSE c.risk_info.sql_type
        body == IF ~c.result.none /\ c.result.rows # <<>>
                THEN IF DOMAIN c.result.rows[1] # {}
                     THEN << "executed", operation_type, "result",
                             FirstValue(c.result.rows[1]) >>
                     ELSE << "performed", operation_type, "rows",
                             Len(c.result.rows) >>
                ELSE << "performed", operation_type >>
    IN  IF c.snapshot_id # NoId
        THEN body \o << "Snapshot id", c.snapshot_id >>
        ELSE body

\* Lines 411-440: the summary is computed and the result returned.
Summarize ==
    /\ pc = "summarize"
    /\ cur' = [cur EXCEPT !.summary = SummaryOf(cur)]
    /\ pc' = "save"
    /\ UNCHANGED <<db, snapshots, snapLog, runs, now, events, db0, nRuns,
                   nWrites, last, dialect, nCalls>>

\* safe_exec, lines 30-45.
RunObj(run_id, ts, c) ==
    [run_id |-> run_id, timestamp |-> ts, sql |-> c.sql,
     estimated_rows |-> c.estimated_rows, risk_level |-> c.risk_level,
     snapshot_id |-> c.snapshot_id, execution_result |-> c.result,
     execution_dag |-> c.audit_steps, summary |-> c.summary,
     intact |-> TRUE]

\* A run file whose write stopped part-way: json.load raises on it.
PartialRun(run_id) == [RunObj(run_id, 0, Idle) EXCEPT !.intact = FALSE]

\* The result holds values of table columns.  Such a value (a timestamp, a
\* date, a numeric, a bytea) need not be one json.dump can encode; the
\* affected_rows count of a write always is.
HasColumnValues(result) ==
    /\ ~result.none
    /\ \E i \in 1..Len(result.rows) :
            DOMAIN result.rows[i] \ {"affected_rows"} # {}

\* How save_run can end: the file is written, or json.dump raises
\* TypeError on a value it cannot encode, after open(path, "w") created
\* the file and the keys before that value were written.
SaveOutcomes == {"ok", "not_serializable"}

\* save_run(run_obj): the run store afterwards and whether it raised.
save_run(store, run_obj, outcome) ==
    IF outcome = "ok"
    THEN [raised |-> FALSE, store |-> Put(store, run_obj.run_id, run_obj)]
    ELSE [raised |-> TRUE,
          store |-> Put(store, run_obj.run_id, PartialRun(run_obj.run_id))]

\* safe_exec, lines 30-49, and save_run.
SaveRun ==
    /\ pc = "save"
    /\ \E outcome \in SaveOutcomes :
        /\ outcome = "not_serializable" => HasColumnValues(cur.result)
        /\ runs' = save_run(runs, RunObj(now, now, cur), outcome).store
    /\ pc' = "idle"
    /\ cur' = Idle
    /\ events' = <<>>
    /\ UNCHANGED <<db, snapshots, snapLog, now, db0, nRuns, nWrites, last, dialect, nCalls>>

\* The wall clock passes to the next second.
Tick ==
    /\ now < MaxClock
    /\ now' = now + 1
    /\ UNCHANGED <<db, snapshots, snapLog, runs, pc, cur, events, db0, nRuns,
                   nWrites, last, dialect, nCalls>>

\* The steps of a submission after the first.
Stages ==
    \/ DryRun
    \/ AnalyzeRisk
    \/ ExecuteDirect
    \/ Refuse
    \/ \E choice \in Choices : Confirm(choice)
    \/ SnapshotBegin
    \/ SnapshotCapture
    \/ ExecuteApproved
    \/ Summarize
    \/ SaveRun

\* The steps of a submission after the first, and the clock.
Steps == Stages \/ Tick

Next ==
    \/ \E s \in Statements : Submit(s)
    \/ Steps

Spec == Init /\ [][Next]_vars

\* The answers that resolve the confirmation prompt.
Resolving == {choice \in Choices : Answer(choice) # "again"}

\* The pipeline runs in one thread: each of its stages, once reached, is
\* carried out; and the operator, once asked, eventually gives an answer
\* that resolves the prompt.
Fairness ==
    /\ WF_vars(DryRun)
    /\ WF_vars(AnalyzeRisk)
    /\ WF_vars(ExecuteDirect)
    /\ WF_vars(Refuse)
    /\ WF_vars(\E choice \in Resolving : Confirm(choice))
    /\ WF_vars(SnapshotBegin)
    /\ WF_vars(SnapshotCapture)
    /\ WF_vars(ExecuteApproved)
    /\ WF_vars(Summarize)
    /\ WF_vars(SaveRun)

SpecLive == Init /\ [][Next]_vars /\ Fairness

\* ------------------------------------------------- snapshot and rollback
\* What other clients of the database execute directly:
\*   INSERT INTO person VALUES (1, 1)      DELETE FROM person WHERE a = 1
\*   UPDATE person SET b = 1 WHERE a = 0   DROP TABLE person
\*   CREATE TABLE t2 (a, b)                CREATE TABLE t2 ()
\*   ALTER TABLE person DROP COLUMN b
ClientStatements ==
    { Stmt("Insert", "person", NoWhere, FALSE, 1, "a", 1),
      Stmt("Delete", "person", [col |-> "a", val |-> 1], FALSE, 0, "a", 0),
      Stmt("Update", "person", [col |-> "a", val |-> 0], FALSE, 0, "b", 1),
      Stmt("Drop", "person", NoWhere, FALSE, 0, "a", 0),
      Stmt("Create", "t2", NoWhere, FALSE, 0, "a", 0),
      Stmt("Create", "t2", NoWhere, FALSE, 0, "none", 0),
      Stmt("Alter", "person", NoWhere, FALSE, 0, "b", 0),
      Stmt("Alter", "person", NoWhere, FALSE, 0, "a", 0) }

\* Another client commits a statement.
ClientWrite(s) ==
    /\ pc = "idle"
    /\ nWrites < MaxWrites
    /\ Fits(db, s)
    /\ Exec(dialect, db, s).ok
    /\ db' = Exec(dialect, db, s).db
    /\ nWrites' = nWrites + 1
    /\ last' = Call("write", NoId, "ok", db', FALSE)
    /\ UNCHANGED <<snapshots, snapLog, runs, now, pc, cur, events, db0, nRuns,
                   dialect, nCalls>>

\* create_snapshot(): the id is made from the clock (lines 28-30).
CreateSnapshot(outcome) ==
    /\ pc = "idle"
    /\ nCalls < MaxCalls
    /\ LET r == create_snapshot(snapshots, db, now, now, outcome)
       IN  /\ snapshots' = r.store
           /\ last' = Call("create_snapshot", now,
                           IF r.raised THEN "failed" ELSE "ok", db, FALSE)
    /\ events' = SessionEvents("capture", outcome # "capture_fail")
    /\ nCalls' = nCalls + 1
    /\ UNCHANGED <<db, snapLog, runs, now, pc, cur, db0, nRuns,
                   nWrites, dialect>>

\* What a call of rollback_to_snapshot does, in order: "load" is
\* load_snapshot, "open" .. "close" the database session.
RollbackTrace(status) ==
    CASE status = "refused" -> <<>>
      [] status = "not_found" -> << "load" >>
      [] status = "success" -> << "load" >> \o SessionEvents("restore", TRUE)
      [] OTHER -> << "load" >> \o SessionEvents("restore", FALSE)

\* rollback_to_snapshot(id, confirm), as rollback_to() and the callers of
\* the module call it.  events holds the flag the call was made with and
\* then what the call did.
Rollback(id, confirm, failAt) ==
    /\ pc = "idle"
    /\ nCalls < MaxCalls
    /\ failAt > 0 =>
        /\ confirm
        /\ CanLoad(snapshots, id)
        /\ failAt <= Len(RestoreOps(db, snapshots[id]))
    /\ LET r == rollback_to_snapshot(snapshots, db, dialect, id, confirm,
                                     failAt)
       IN  /\ db' = r.db
           /\ last' = Call("rollback", id, r.status, db,
                           /\ last.op = "create_snapshot"
                           /\ last.status = "ok"
                           /\ last.id = id)
           /\ events' = << IF confirm THEN "confirm=True"
                           ELSE "confirm=False" >>
                        \o RollbackTrace(r.status)
    /\ nCalls' = nCalls + 1
    /\ UNCHANGED <<snapshots, snapLog, runs, now, pc, cur, db0, nRuns,
                   nWrites, dialect>>

\* Most statements one restore executes: drop, create, insert per table.
MaxOps == 6

SnapInitTables ==
    { [n \in TableNames |->
        IF n = "person" THEN Table(Cols, rows) ELSE NoTable] :
      rows \in { << Row(0, 0), Row(1, 0) >>,
                 << Row(0, 0), Row(1, 0), Row(1, 1) >> } }

SnapInit ==
    /\ db \in SnapInitTables
    /\ snapshots = <<>>
    /\ snapLog = <<>>
    /\ runs = <<>>
    /\ now = 0
    /\ pc = "idle"
    /\ cur = Idle
    /\ events = <<>>
    /\ db0 = db
    /\ nRuns = 0
    /\ nWrites = 0
    /\ last = Call("none", NoId, "", db, FALSE)
    /\ dialect \in Dialects
    /\ nCalls = 0

SnapNext ==
    \/ \E s \in ClientStatements : ClientWrite(s)
    \/ \E outcome \in SnapOutcomes \ {"log_fail"} : CreateSnapshot(outcome)
    \/ \E id \in 0..MaxClock, confirm \in BOOLEAN, failAt \in 0..MaxOps :
            Rollback(id, confirm, failAt)
    \/ Tick

SpecSnap == SnapInit /\ [][SnapNext]_vars

\* ----------------------------------------------------------- list_snapshots
\* One element of the list: the id, the time stamp and the table names.
Summary(store, id) ==
    [snapshot_id |-> id, timestamp |-> store[id].timestamp,
     tables |-> {n \in TableNames : store[id].tables[n].present}]

\* sorted(snapshots, key=timestamp, reverse=True) over the files ids.
RECURSIVE NewestFirst(_, _)
NewestFirst(store, ids) ==
    IF ids = {} THEN <<>>
    ELSE LET m == CHOOSE i \in ids :
                    \A j \in ids : store[j].timestamp <= store[i].timestamp
         IN  << Summary(store, m) >> \o NewestFirst(store, ids \ {m})

\* list_snapshots(): every file of the directory that load_snapshot can
\* read (the others are skipped by the except clause), newest first.
list_snapshots(store) ==
    NewestFirst(store, {id \in DOMAIN store : CanLoad(store, id)})

\* list_snapshots() is called.
ListSnapshots ==
    /\ pc = "idle"
    /\ last' = [Call("list_snapshots", NoId, "ok", db, FALSE) EXCEPT
                    !.status = list_snapshots(snapshots)]
    /\ UNCHANGED <<db, snapshots, snapLog, runs, now, pc, cur, events, db0,
                   nRuns, nWrites, dialect, nCalls>>

ListNext ==
    \/ \E outcome \in SnapOutcomes \ {"log_fail"} : CreateSnapshot(outcome)
    \/ ListSnapshots
    \/ Tick

SpecList == SnapInit /\ [][ListNext]_vars

\* ------------------------------------------------------------------ replay
\* is_read_only(sql): the statement parses and its root is an exp.Select.
is_read_only(s) == ~ParseFails(s) /\ IsInstance(s, "Select")

\* load_run(run_id) finds the file and json.load reads it.
CanLoadRun(store, run_id) == run_id \in DOMAIN store /\ store[run_id].intact

\* A run record without a statement: the key is missing, null or empty.
NoSql == Stmt("None", "", NoWhere, FALSE, 0, "", 0)

\* Lines 12-21, taking the stored statement only.
RecoverStoredOnly(run) == run.sql

\* Lines 12-21: the stored statement, or else the statement in the inputs
\* of the first execute_sql step (the loop breaks at that step).
recover_sql(run) ==
    IF run.sql # NoSql THEN run.sql
    ELSE LET steps == run.execution_dag
             at == {i \in 1..Len(steps) : steps[i].action = "execute_sql"}
         IN  IF at = {} THEN NoSql
             ELSE steps[CHOOSE i \in at : \A j \in at : i <= j].inputs.sql

\* replay(run_id): how the call ends ("raised": an exception reaches the
\* caller), whether the statement was issued, the database afterwards and
\* the rows returned.
replay(store, dia, d, run_id, dbFail) ==
    IF ~CanLoadRun(store, run_id)
    THEN [status |-> "raised", issued |-> FALSE, db |-> d, rows |-> <<>>]
    ELSE LET sql == recover_sql(store[run_id])
         IN  IF sql = NoSql
             THEN [status |-> "error", issued |-> FALSE, db |-> d,
                   rows |-> <<>>]
             ELSE IF ~is_read_only(sql)
             THEN [status |-> "blocked", issued |-> FALSE, db |-> d,
                   rows |-> <<>>]
             ELSE LET res == run_sql(dia, d, sql, dbFail)
                  IN  [status |-> IF res.ok THEN "replayed" ELSE "error",
                       issued |-> TRUE, db |-> res.db, rows |-> res.rows]

\* last, after a call of replay: result_count is len(res).
ReplayCall(id, status, before, result_count) ==
    [op |-> "replay", id |-> id, status |-> status, before |-> before,
     fresh |-> FALSE, result_count |-> result_count]

\* replay(run_id), called between submissions.  events holds what the call
\* did.
Replay(run_id, dbFail) ==
    /\ pc = "idle"
    /\ nCalls < MaxCalls
    /\ LET r == replay(runs, dialect, db, run_id, dbFail)
       IN  /\ dbFail => r.issued
           /\ db' = r.db
           /\ last' = ReplayCall(run_id, r.status, db, Len(r.rows))
           /\ events' = << "load_run" >>
                        \o (IF r.issued
                            THEN SessionEvents("exec", r.status = "replayed")
                            ELSE <<>>)
    /\ nCalls' = nCalls + 1
    /\ UNCHANGED <<snapshots, snapLog, runs, now, pc, cur, db0, nRuns,
                   nWrites, dialect>>

ReplayNext ==
    \/ Next
    \/ \E run_id \in 0..MaxClock, dbFail \in BOOLEAN : Replay(run_id, dbFail)

SpecReplay == Init /\ [][ReplayNext]_vars

\* Run records as a file of the log directory may hold them: with or
\* without a stored statement, and with up to MaxSteps audit steps, each
\* with or without a statement in its inputs.
RecordedSql ==
    { NoSql,
      Stmt("Select", "person", NoWhere, FALSE, 0, "a", 0),
      Stmt("Select", "person", [col |-> "a", val |-> 1], FALSE, 0, "a", 0),
      Stmt("Delete", "person", [col |-> "a", val |-> 1], FALSE, 0, "a", 0) }

RecordedSteps ==
    [action : {"analyze_risk", "execute_sql"},
     inputs : [sql : RecordedSql \ {Stmt("Select", "person", NoWhere,
                                         FALSE, 0, "a", 0)}]]

RecordedDags ==
    UNION { [1..n -> RecordedSteps] : n \in 0..MaxSteps }

RunRecords ==
    [intact : {TRUE}, sql : RecordedSql, execution_dag : RecordedDags]

RecoverInit ==
    /\ db \in InitTables
    /\ snapshots = <<>>
    /\ snapLog = <<>>
    /\ runs \in {[r \in {0} |-> rec] : rec \in RunRecords}
    /\ now = 0
    /\ pc = "idle"
    /\ cur = Idle
    /\ events = <<>>
    /\ db0 = db
    /\ nRuns = 0
    /\ nWrites = 0
    /\ last = Call("none", NoId, "", db, FALSE)
    /\ dialect \in Dialects
    /\ nCalls = 0

RecoverNext == \E dbFail \in BOOLEAN : Replay(0, dbFail)

SpecRecover == RecoverInit /\ [][RecoverNext]_vars

\* ------------------------------------------------------ repeated submission
\* The statements submitted when safe_exec is called again and again:
\*   SELECT * FROM person
\*   DELETE FROM person WHERE a = 1
RepeatStatements ==
    { Stmt("Select", "person", NoWhere, FALSE, 0, "a", 0),
      Stmt("Delete", "person", [col |-> "a", val |-> 1], FALSE, 0, "a", 0) }

\* safe_exec(sql) is called, once more than Submit allows.
Resubmit(s) == nRuns < MaxRuns + 1 /\ Begin(s)

RunsNext ==
    \/ \E s \in RepeatStatements : Resubmit(s)
    \/ Steps
    \/ \E run_id \in 0..MaxClock, dbFail \in BOOLEAN : Replay(run_id, dbFail)

SpecRuns == Init /\ [][RunsNext]_vars

\* ------------------------------------------------------- every operation
\* Submissions, and between them direct calls of create_snapshot,
\* rollback_to_snapshot and replay, all within one second of the clock.
SessionsNext ==
    \/ \E s \in RepeatStatements : Submit(s)
    \/ Stages
    \/ \E outcome \in SnapOutcomes \ {"log_fail"} : CreateSnapshot(outcome)
    \/ \E id \in 0..MaxClock, confirm \in BOOLEAN, failAt \in 0..MaxOps :
            Rollback(id, confirm, failAt)
    \/ \E run_id \in 0..MaxClock, dbFail \in BOOLEAN : Replay(run_id, dbFail)

SpecSessions == Init /\ [][SessionsNext]_vars

\* ------------------------------------------------- concurrent submissions
\* Two approved submissions run in two threads of the host process.  Each
\* has passed the prompt; pc and cur hold, per thread, where it stands and
\* its locals.  The threads started in different seconds, so their
\* snapshot ids and run ids differ.
Workers == {1, 2}

IdOf(w) == w - 1

\* The statements of the two submissions:
\*   DELETE FROM person WHERE a = 1       UPDATE person SET b = 1
ApprovedStatements ==
    { Stmt("Delete", "person", [col |-> "a", val |-> 1], FALSE, 0, "a", 0),
      Stmt("Update", "person", NoWhere, FALSE, 0, "b", 1) }

\* The audit steps a thread holds when it enters the snapshot step.
ApprovedSteps(s) ==
    << Step(1, "precheck", "success", "",
            [operation_type |-> s.kind, tables |-> {s.table},
             predicate |-> OwnWhere(s)]),
       Step(4, "User_confirmation", "success", "", [user_choice |-> "Yes"]) >>

ConcInit ==
    /\ db \in InitTables
    /\ snapshots = <<>>
    /\ snapLog = <<>>
    /\ runs = <<>>
    /\ now = 0
    /\ pc = [w \in Workers |-> "snapshot"]
    /\ \E ss \in [Workers -> ApprovedStatements] :
        cur = [w \in Workers |->
                [locals |-> [Locals(ss[w]) EXCEPT
                                !.risk_level = BaseRisk(ss[w]).risk_level,
                                !.risk_info = BaseRisk(ss[w]),
                                !.audit_steps = ApprovedSteps(ss[w])],
                 logs |-> <<>>]]
    /\ events = <<>>
    /\ db0 = db
    /\ nRuns = 2
    /\ nWrites = 0
    /\ last = Call("none", NoId, "", db, FALSE)
    /\ dialect \in Dialects
    /\ nCalls = 0

\* snapshot_manager.py:25: create_snapshot(snapshot_id) writes the file.
ConcSnapshot(w) ==
    /\ pc[w] = "snapshot"
    /\ snapshots' = create_snapshot(snapshots, db, IdOf(w), now, "ok").store
    /\ cur' = [cur EXCEPT ![w].locals.snapshot_id = IdOf(w),
                          ![w].locals.audit_steps = Append(@,
                                Step(5, "create_snapshot", "success", "",
                                     [snapshot_id |-> IdOf(w)]))]
    /\ pc' = [pc EXCEPT ![w] = "read_log"]
    /\ UNCHANGED <<db, snapLog, runs, now, events, db0, nRuns, nWrites, last,
                   dialect, nCalls>>

\* snapshot_manager.py:36-42: the log file is read into the list logs.
ConcReadLog(w) ==
    /\ pc[w] = "read_log"
    /\ cur' = [cur EXCEPT ![w].logs = snapLog]
    /\ pc' = [pc EXCEPT ![w] = "write_log"]
    /\ UNCHANGED <<db, snapshots, snapLog, runs, now, events, db0, nRuns,
                   nWrites, last, dialect, nCalls>>

\* snapshot_manager.py:42-46: the list, with the new entry, replaces the
\* log file.
ConcWriteLog(w) ==
    /\ pc[w] = "write_log"
    /\ snapLog' = Append(cur[w].logs,
                         LogEntry(IdOf(w), now,
                                  cur[w].locals.risk_info.sql_type))
    /\ pc' = [pc EXCEPT ![w] = "execute"]
    /\ UNCHANGED <<db, snapshots, runs, now, cur, events, db0, nRuns,
                   nWrites, last, dialect, nCalls>>

\* executor.py:390-409: the statement is executed in its own session.
ConcExecute(w) ==
    /\ pc[w] = "execute"
    /\ LET res == run_sql(dialect, db, cur[w].locals.sql, FALSE)
       IN  /\ db' = res.db
           /\ cur' = [cur EXCEPT
                ![w].locals.result = IF res.ok THEN Result(res.rows) ELSE @,
                ![w].locals.audit_steps = Append(@,
                    IF res.ok
                    THEN Step(6, "execute_sql", "success", "",
                              [result |-> res.rows,
                               result_count |-> Len(res.rows)])
                    ELSE Step(6, "execute_sql", "error", "execution failed",
                              NoOutputs))]
    /\ pc' = [pc EXCEPT ![w] = "save"]
    /\ UNCHANGED <<snapshots, snapLog, runs, now, events, db0, nRuns, nWrites,
                   last, dialect, nCalls>>

\* app.py:30-46: the run is written under its own run id.
ConcSave(w) ==
    /\ pc[w] = "save"
    /\ runs' = save_run(runs,
                        RunObj(IdOf(w), now,
                               [cur[w].locals EXCEPT
                                    !.summary = SummaryOf(cur[w].locals)]),
                        "ok").store
    /\ pc' = [pc EXCEPT ![w] = "done"]
    /\ UNCHANGED <<db, snapshots, snapLog, now, cur, events, db0, nRuns,
                   nWrites, last, dialect, nCalls>>

ConcNext ==
    \E w \in Workers :
        \/ ConcSnapshot(w)
        \/ ConcReadLog(w)
        \/ ConcWriteLog(w)
        \/ ConcExecute(w)
        \/ ConcSave(w)

SpecConc == ConcInit /\ [][ConcNext]_vars

\* ------------------------------------------- a run among other runs
\* Another run of the pipeline reaches its execute_sql step (run_sql,
\* lines 390-409) after this run's create_snapshot step and before its
\* execute_sql step: nothing is held between the two steps.
OtherRunExecutes(s) ==
    /\ pc = "execute"
    /\ nWrites < MaxWrites
    /\ Fits(db, s)
    /\ Exec(dialect, db, s).ok
    /\ db' = Exec(dialect, db, s).db
    /\ nWrites' = nWrites + 1
    /\ last' = Call("write", NoId, "ok", db', FALSE)
    /\ UNCHANGED <<snapshots, snapLog, runs, now, pc, cur, events, db0, nRuns,
                   dialect, nCalls>>

\* The stages of a run that goes through the confirmation gate.
InterleaveNext ==
    \/ \E s \in ApprovedStatements : Submit(s)
    \/ DryRun
    \/ AnalyzeRisk
    \/ Refuse
    \/ \E choice \in Choices : Confirm(choice)
    \/ SnapshotBegin
    \/ SnapshotCapture
    \/ ExecuteApproved
    \/ Summarize
    \/ SaveRun
    \/ \E s \in ClientStatements : OtherRunExecutes(s)
    \/ \E id \in 0..MaxClock : Rollback(id, TRUE, 0)

SpecInterleave == Init /\ [][InterleaveNext]_vars

\* ------------------------------------------------------- risk policy alone
\* One statement of every class, and the estimates analyze_risk is called
\* with: unavailable, zero, up to and above the threshold.
RiskStatements == { Stmt(k, "person", NoWhere, FALSE, 0, "a", 0) : k \in Kinds }

Estimates == -1..(RowThreshold + 1)

\* execute_sql_with_safety has recorded the precheck and dry_run steps and
\* is about to call analyze_risk(expression, estimated_rows).
RiskInit ==
    /\ db \in InitTables
    /\ snapshots = <<>>
    /\ snapLog = <<>>
    /\ runs = <<>>
    /\ now = 0
    /\ pc = "analyze_risk"
    /\ \E s \in RiskStatements, e \in Estimates :
        cur = [Locals(s) EXCEPT
                !.risk_info = IF ParseFails(s)
                              THEN RiskInfo("UNKNOWN", "UNKNOWN",
                                            "SQL Parsing failed")
                              ELSE NoRiskInfo,
                !.estimated_rows = e,
                !.audit_steps =
                    << Step(1, "precheck", "success", "",
                            IF ParseFails(s) THEN NoOutputs
                            ELSE [operation_type |-> s.kind,
                                  tables |-> {s.table},
                                  predicate |-> OwnWhere(s)]),
                       Step(2, "dry_run", "success", "",
                            [estimated_rows |-> e,
                             dry_run_sql |-> NoProbe]) >>]
    /\ events = <<>>
    /\ db0 = db
    /\ nRuns = 1
    /\ nWrites = 0
    /\ last = Call("none", NoId, "", db, FALSE)
    /\ dialect \in Dialects
    /\ nCalls = 0

SpecRisk == RiskInit /\ [][AnalyzeRisk]_vars

\* ------------------------------------------------------------------ claims
Happened(e) == \E i \in 1..Len(events) : events[i] = e

\* Some event e comes before position i of the run's events.
Earlier(e, i) == \E j \in 1..(i - 1) : events[j] = e

\* The run has passed the risk check.
Classified == pc \in {"decide", "snapshot", "snapshotting", "execute",
                      "summarize", "save"}

\* The pipeline has returned its result (safe_exec is about to save it).
Returned == pc = "save"

LastStep == cur.audit_steps[Len(cur.audit_steps)]

UnknownLevel == cur.risk_level = "UNKNOWN" \/ cur.risk_level = "unknown"

\* C1: a statement whose risk level is UNKNOWN is never issued to the
\* database: no confirmation is asked, no snapshot is created, the tables
\* stay as they were, and the run ends with a refusal step that records the
\* reason.
C1_UnknownRefused ==
    (Classified /\ UnknownLevel) =>
        /\ ~Happened("exec")
        /\ ~Happened("prompt")
        /\ ~Happened("snap_begin")
        /\ cur.snapshot_id = NoId
        /\ db = db0
        /\ pc \in {"decide", "summarize", "save"}
        /\ pc \in {"summarize", "save"} =>
            /\ LastStep.action = "execute_sql"
            /\ LastStep.status = "error"
            /\ LastStep.error = "Unrecognized SQL type, execution refused"
            /\ cur.result = NoResult

\* A set operation was probed, classified "unknown" and refused.
C1_Witness ==
    /\ Returned
    /\ cur.risk_level = "unknown"
    /\ cur.sql.kind = "Union"
    /\ Happened("probe")
    /\ LastStep.error = "Unrecognized SQL type, execution refused"

\* C2: the statement is issued without a preceding approval only when the
\* level is LOW or INFO; at MEDIUM, HIGH and CRITICAL every issue of the
\* statement comes after the operator's approval.
C2_ApprovalBeforeExecution ==
    \A i \in 1..Len(events) :
        events[i] = "exec" =>
            /\ Earlier("approve", i) \/ cur.risk_level \in {"LOW", "INFO"}
            /\ cur.risk_level \in {"MEDIUM", "HIGH", "CRITICAL"} =>
                    Earlier("approve", i)

\* An approved HIGH statement was executed.
C2_Witness ==
    /\ pc = "summarize"
    /\ cur.risk_level = "HIGH"
    /\ Happened("approve")
    /\ Happened("exec")

\* C3: when the operator denies, the confirmation step is cancelled, the
\* statement is never issued, no snapshot is created and every table has
\* the structure and rows it had before the submission.
C3_DenialLeavesNothing ==
    Happened("deny") =>
        /\ LastStep.action = "User_confirmation"
        /\ LastStep.status = "cancelled"
        /\ ~Happened("exec")
        /\ ~Happened("snap_begin")
        /\ cur.snapshot_id = NoId
        /\ cur.result = NoResult
        /\ db = db0
        /\ pc \in {"summarize", "save"}

\* UPDATE person SET b = 1 (no WHERE, HIGH) was denied.
C3_Witness ==
    /\ Returned
    /\ Happened("deny")
    /\ cur.sql.kind = "Update"
    /\ cur.risk_level = "HIGH"

\* The risk analysis of the run returned (it neither raised nor was skipped).
Analyzed ==
    /\ Classified
    /\ ~ParseFails(cur.sql)
    /\ \E i \in 1..Len(cur.audit_steps) :
            /\ cur.audit_steps[i].action = "analyze_risk"
            /\ cur.audit_steps[i].status = "success"

\* C4: for a SELECT or COMMENT statement the level is MEDIUM when the
\* estimated row count is above the threshold and LOW when it is not (or
\* is -1), so that a SELECT estimated above the threshold is routed to the
\* confirmation gate and not executed directly.
C4_LargeSelectIsMedium ==
    (Analyzed /\ cur.sql.kind \in {"Select", "Comment"}) =>
        /\ cur.risk_level = IF cur.estimated_rows > RowThreshold
                            THEN "MEDIUM" ELSE "LOW"
        /\ cur.estimated_rows > RowThreshold =>
                /\ Route(cur.risk_level) = "confirm"
                /\ \A i \in 1..Len(events) :
                        events[i] = "exec" => Earlier("approve", i)

\* C5: for an UPDATE or DELETE statement the level is HIGH when the
\* statement has no filtering predicate of its own and MEDIUM when it has
\* one, whatever WHERE a nested subquery carries.
C5_OwnPredicateDecides ==
    (Analyzed /\ cur.sql.kind \in {"Update", "Delete"}) =>
        cur.risk_level = IF OwnWhere(cur.sql) = NoWhere
                         THEN "HIGH" ELSE "MEDIUM"

\* Position of the first occurrence of e in the run's events (0 if none).
FirstAt(e) ==
    IF Happened(e)
    THEN CHOOSE i \in 1..Len(events) :
            events[i] = e /\ \A j \in 1..(i - 1) : events[j] # e
    ELSE 0

\* The audit step with the given action has been recorded.
StepAt(action) ==
    CHOOSE i \in 0..Len(cur.audit_steps) :
        \/ i > 0 /\ cur.audit_steps[i].action = action
        \/ i = 0 /\ \A j \in 1..Len(cur.audit_steps) :
                        cur.audit_steps[j].action # action

\* C6: in an approved run the snapshot attempt starts and finishes before
\* the statement is issued: the statement is not issued before the attempt
\* began or while the capture is under way, and the create_snapshot step is
\* recorded before the execute_sql step.
C6_SnapshotBeforeExecution ==
    Happened("approve") =>
        /\ \A i \in 1..Len(events) :
                events[i] = "exec" =>
                    /\ Earlier("snap_begin", i)
                    /\ Earlier("snap_end", i)
                    /\ FirstAt("approve") < FirstAt("snap_begin")
                    /\ FirstAt("snap_begin") < FirstAt("snap_end")
        /\ pc \in {"snapshot", "snapshotting"} => ~Happened("exec")
        /\ Happened("snap_begin") /\ ~Happened("snap_end") =>
                pc = "snapshotting"
        /\ StepAt("execute_sql") > 0 =>
                /\ StepAt("create_snapshot") > 0
                /\ StepAt("create_snapshot") < StepAt("execute_sql")

\* DROP TABLE person was approved, the capture ran and the drop executed.
C6_Witness ==
    /\ pc = "summarize"
    /\ cur.sql.kind = "Drop"
    /\ Happened("approve")
    /\ Happened("capture")
    /\ Happened("exec")
    /\ ~db["person"].exists

\* C7: every persisted run with a snapshot id refers to a snapshot record
\* that exists in the snapshot store and can be loaded, also when the
\* capture of that run failed.
C7_ReferencedSnapshotExists ==
    \A r \in DOMAIN runs :
        runs[r].snapshot_id # NoId => CanLoad(snapshots, runs[r].snapshot_id)

\* The snapshot of the approved run was not created: no loadable record
\* was left in the store.
SnapshotFailed ==
    /\ Happened("snap_end")
    /\ Happened("snap_warning")
    /\ \A id \in 0..MaxClock : ~CanLoad(snapshots, id)

\* C8: when the snapshot creation of an approved run fails, the statement
\* is executed all the same and the create_snapshot step of the run has
\* status error with the failure message.
C8_SnapshotFailureRecorded ==
    (SnapshotFailed /\ StepAt("create_snapshot") > 0) =>
        /\ cur.audit_steps[StepAt("create_snapshot")].status = "error"
        /\ cur.audit_steps[StepAt("create_snapshot")].error # ""
        /\ pc \in {"summarize", "save"} => Happened("exec")

\* rollback_to_snapshot(id, confirm=True) has just returned "success".
RolledBack == last.op = "rollback" /\ last.status = "success"

\* The table named n is in the database as the record captured it.
AsCaptured(n, info) ==
    /\ db[n].exists = info.present
    /\ info.present =>
        /\ db[n].cols = info.structure
        /\ ~info.has_more => db[n].rows = info.data_sample

\* C9: after a successful rollback to snapshot S the database holds
\* exactly the tables recorded in S, each with the captured columns and,
\* when the table was within the sample cap, exactly the captured rows,
\* whatever creations, drops, column changes and row writes came between.
C9_RestoreReproducesSnapshot ==
    RolledBack =>
        \A n \in TableNames : AsCaptured(n, snapshots[last.id].tables[n])

\* C10: create_snapshot immediately followed by a successful rollback to
\* that snapshot leaves the table set as it was before the snapshot and,
\* for every table within the sample cap, the same rows.
C10_SnapshotRestoreRoundTrip ==
    (RolledBack /\ last.fresh) =>
        \A n \in TableNames :
            /\ db[n].exists = last.before[n].exists
            /\ (last.before[n].exists
                    /\ Len(last.before[n].rows) <= SampleCap) =>
                    db[n].rows = last.before[n].rows

\* rollback_to_snapshot(id, confirm=True) has just raised out of its session.
RestoreFailed == last.op = "rollback" /\ last.status = "failed"

\* C11: a restore is all or nothing: after a failed rollback_to_snapshot
\* the database is exactly as it was before the call, and after a
\* successful one every table is as the snapshot recorded it.
C11_RestoreAllOrNothing ==
    /\ RestoreFailed => db = last.before
    /\ RolledBack =>
            \A n \in TableNames : AsCaptured(n, snapshots[last.id].tables[n])

\* A direct call of rollback_to_snapshot is made with confirm false.
UnconfirmedCall ==
    /\ nCalls' = nCalls + 1
    /\ last'.op = "rollback"
    /\ events'[1] = "confirm=False"

\* C12: rollback_to_snapshot called with confirm false refuses before it
\* loads the snapshot or opens a database session, and leaves the tables,
\* the snapshot store, the snapshot log and the run store as they were.
C12_UnconfirmedRollbackRefused ==
    [][UnconfirmedCall =>
            /\ last'.status = "refused"
            /\ Len(events') = 1
            /\ db' = db
            /\ snapshots' = snapshots
            /\ snapLog' = snapLog
            /\ runs' = runs]_vars

\* An unconfirmed rollback to a stored snapshot was refused although the
\* database had been written to since: a restore would have changed it.
C12_Witness ==
    /\ last.op = "rollback"
    /\ last.status = "refused"
    /\ events = << "confirm=False" >>
    /\ CanLoad(snapshots, last.id)
    /\ Restored(db, snapshots[last.id]) # db

\* replay(run_id) has just returned or raised: no submission was made
\* since.
Replayed ==
    /\ last.op = "replay"
    /\ events # <<>>
    /\ events[1] = "load_run"

\* The statement of the run the last replay named.
ReplayedSql == runs[last.id].sql

\* C13: replay issues the recovered statement only if it is a pure SELECT;
\* for every other statement it returns blocked, issues nothing and leaves
\* the database as it was.
C13_ReplayOnlyPureSelect ==
    (Replayed /\ CanLoadRun(runs, last.id)) =>
        /\ Happened("exec") => ReplayedSql.kind = "Select"
        /\ ReplayedSql.kind # "Select" =>
                /\ last.status = "blocked"
                /\ events = << "load_run" >>
                /\ db = last.before

\* A call of replay is made.
ReplayStep == nCalls' = nCalls + 1 /\ last'.op = "replay"

\* C14: replay has no side effect on stored state: it writes no snapshot,
\* no snapshot log entry and no run record, asks no confirmation, and
\* changes no table; and two replays of the same run, one right after the
\* other, that both return rows return the same number of rows.
C14_ReplayHasNoSideEffects ==
    [][ReplayStep =>
            /\ snapshots' = snapshots
            /\ snapLog' = snapLog
            /\ runs' = runs
            /\ cur' = cur
            /\ \A i \in 1..Len(events') :
                    events'[i] \notin {"prompt", "snap_begin", "capture"}
            /\ db' = db
            /\ (/\ last.op = "replay"
                /\ last.id = last'.id
                /\ last.status = "replayed"
                /\ last'.status = "replayed") =>
                    last'.result_count = last.result_count]_vars

\* C15: for every run id replay returns a result whose status is
\* replayed, blocked or error: it never raises to its caller.
C15_ReplayNeverRaises ==
    Replayed => last.status \in {"replayed", "blocked", "error"}

\* safe_exec returns or raises: the submission is over.
SaveStep == pc = "save" /\ pc' = "idle"

\* C16: every submission through safe_exec, executed, refused, cancelled
\* or failed, ends with a readable Run record in the run store that
\* carries its statement, its risk level, its audit steps and its
\* non-empty summary.
C16_EverySubmissionPersisted ==
    [][SaveStep =>
            /\ cur.summary # <<>>
            /\ Len(cur.audit_steps) >= 4
            /\ \E r \in DOMAIN runs' :
                    /\ runs'[r].intact
                    /\ runs'[r].sql = cur.sql
                    /\ runs'[r].risk_level = cur.risk_level
                    /\ runs'[r].execution_dag = cur.audit_steps
                    /\ runs'[r].summary = cur.summary]_vars

\* C17: a run record is written only when a submission ends, a record
\* once saved is never changed, replaced or lost by a later operation, and
\* between submissions the run store holds one record per submission made.
C17_RunsAppendOnly ==
    [][/\ runs' # runs => SaveStep
       /\ \A r \in DOMAIN runs :
            r \in DOMAIN runs' /\ runs'[r] = runs[r]
       /\ pc' = "idle" => Cardinality(DOMAIN runs') = nRuns']_vars

\* C18: a snapshot record, once written, is never changed or replaced by
\* a later operation: it stays in the store with the content it had.
C18_SnapshotsImmutable ==
    [][\A id \in DOMAIN snapshots :
            CanLoad(snapshots, id) =>
                /\ id \in DOMAIN snapshots'
                /\ snapshots'[id] = snapshots[id]]_vars

\* A direct call of create_snapshot is made.
CreateStep == nCalls' = nCalls + 1 /\ last'.op = "create_snapshot"

\* C19: create_snapshot is all or nothing: when it returns, the store
\* holds a readable record of that id naming every table of the schema;
\* when it fails, capturing or writing, it leaves no record, complete or
\* partial, under that id (what was stored under it before is untouched).
C19_SnapshotAllOrNothing ==
    [][CreateStep =>
        IF last'.status = "ok"
        THEN /\ CanLoad(snapshots', last'.id)
             /\ \A n \in TableNames :
                    snapshots'[last'.id].tables[n].present = db[n].exists
        ELSE /\ DOMAIN snapshots' = DOMAIN snapshots
             /\ last'.id \in DOMAIN snapshots =>
                    snapshots'[last'.id] = snapshots[last'.id]]_vars

\* min(a, b)
Min(a, b) == IF a <= b THEN a ELSE b

\* The record create_snapshot wrote for table n when the database was d
\* counts all its rows, keeps the first min(row_count, cap) of them and
\* flags the truncation.
CappedCapture(info, t) ==
    /\ info.row_count = Len(t.rows)
    /\ Len(info.data_sample) = Min(info.row_count, SampleCap)
    /\ info.data_sample = SubSeq(t.rows, 1, Len(info.data_sample))
    /\ info.has_more = (info.row_count > SampleCap)

\* C20: every captured table has row_count equal to its number of rows,
\* a data_sample of exactly min(row_count, cap) rows and has_more true
\* exactly when row_count exceeds the cap; and a successful restore of a
\* snapshot in which a table was truncated leaves that table holding
\* exactly the retained sample rows.
C20_SampleCap ==
    /\ (last.op = "create_snapshot" /\ last.status = "ok") =>
            \A n \in TableNames :
                last.before[n].exists =>
                    CappedCapture(snapshots[last.id].tables[n],
                                  last.before[n])
    /\ RolledBack =>
            \A n \in TableNames :
                snapshots[last.id].tables[n].has_more =>
                    /\ db[n].exists
                    /\ db[n].rows = snapshots[last.id].tables[n].data_sample

\* The dry run of the submission has just ended.
DryRunDone == pc = "analyze_risk"

\* C21: for an INSERT of k literal rows the dry run reports k without
\* opening a session or issuing a statement, so the estimate is k whatever
\* the state or the availability of the database.
C21_LiteralInsertNeedsNoDatabase ==
    (DryRunDone /\ cur.sql.kind = "Insert") =>
        /\ cur.estimated_rows = cur.sql.nvals
        /\ ~Happened("open")
        /\ ~Happened("probe")

\* The rows the inner SELECT of an INSERT ... SELECT returns on d.
InnerSelectRows(d, s) == Filter(d[s.table].rows, s.where)

\* C22: for an INSERT fed by a SELECT the dry run wraps the inner SELECT
\* as a counting subquery and reports the number of rows it returns on the
\* current state of the database.
C22_InsertSelectCounted ==
    (/\ DryRunDone
     /\ cur.sql.kind = "InsertSelect"
     /\ db[cur.sql.table].exists
     /\ ~Happened("rollback")) =>
        /\ cur.dry_run_sql.form = "subquery"
        /\ cur.estimated_rows = Len(InnerSelectRows(db, cur.sql))

\* The number of rows an executed statement returned or affected.
RowsOf(s, res) ==
    IF s.kind \in {"Select", "Union"} THEN Len(res.rows)
    ELSE res.rows[1].affected_rows

\* C23: the estimate of a SELECT is the number of rows it returns, and
\* that of an UPDATE or DELETE the number of rows of its table matching its
\* predicate (all rows without one): the number of rows the statement
\* returns or affects when executed on the same state.
C23_EstimateMatchesExecution ==
    (DryRunDone /\ cur.sql.kind \in {"Select", "Update", "Delete"}) =>
        LET res == Exec(dialect, db, cur.sql)
            t == db[cur.sql.table]
        IN  res.ok =>
                /\ EvalProbe(db, cur.dry_run_sql).ok
                /\ EvalProbe(db, cur.dry_run_sql).n = RowsOf(cur.sql, res)
                /\ RowsOf(cur.sql, res) = Len(Filter(t.rows, OwnWhere(cur.sql)))
                /\ Happened("commit") =>
                        cur.estimated_rows = RowsOf(cur.sql, res)

\* The probe of a DELETE with a predicate counted some rows, not all.
C23_Witness ==
    /\ DryRunDone
    /\ cur.sql.kind = "Delete"
    /\ OwnWhere(cur.sql) # NoWhere
    /\ Happened("commit")
    /\ cur.estimated_rows > 0
    /\ cur.estimated_rows < Len(db[cur.sql.table].rows)

\* C24: when the rewriter gives no probe, or the probe cannot be executed,
\* the estimate is -1 (never 0 or another count), the dry_run step is
\* recorded without an error and the run goes on to the risk check.
C24_UnavailableEstimate ==
    [][(pc = "dry_run" /\ cur' # cur) =>
        /\ pc' = "analyze_risk"
        /\ (cur'.dry_run_sql = NoProbe \/ ~Happened("commit")') =>
                /\ cur'.estimated_rows = -1
                /\ cur'.audit_steps[Len(cur'.audit_steps)].action = "dry_run"
                /\ cur'.audit_steps[Len(cur'.audit_steps)].status = "success"
                /\ cur'.audit_steps[Len(cur'.audit_steps)].outputs.estimated_rows = -1
        /\ cur'.estimated_rows >= 0 =>
                /\ cur'.dry_run_sql # NoProbe
                /\ Happened("commit")']_vars

\* A DDL statement got no probe, and the probe of a DELETE was refused by
\* the database: both estimates are -1 at the risk check.
C24_Witness ==
    /\ DryRunDone
    /\ cur.estimated_rows = -1
    /\ \/ cur.sql.kind = "Drop" /\ cur.dry_run_sql = NoProbe
       \/ cur.sql.kind = "Delete" /\ Happened("rollback")

\* The run is in a stage before the execute step: the dry run, the risk
\* check, or the branch on the risk level.
BeforeExecute == pc \in {"dry_run", "analyze_risk", "decide"}

\* C25: for every statement kind the stages before the execute step leave
\* the structure and rows of every table unchanged; all that is issued to
\* the database in them is the counting probe, in one session.
C25_StagesBeforeExecuteReadOnly ==
    BeforeExecute =>
        /\ db = db0
        /\ ~Happened("exec")
        /\ \/ events = <<>>
           \/ /\ cur.dry_run_sql # NoProbe
              /\ \E ok \in BOOLEAN : events = SessionEvents("probe", ok)

\* The probe of a DELETE was answered and committed; the rows it counted
\* are still in the table when the run reaches the branch on the level.
C25_Witness ==
    /\ pc = "decide"
    /\ cur.sql.kind = "Delete"
    /\ events = SessionEvents("probe", TRUE)
    /\ cur.estimated_rows > 0
    /\ db = db0

\* The level the policy gives the classes that are ranked by what they are.
FixedLevel(kind) ==
    CASE kind = "Drop" -> "CRITICAL"
      [] kind \in {"Alter", "Create", "Merge", "Grant", "Revoke"} -> "HIGH"
      [] kind \in {"Insert", "InsertSelect", "Analyze"} -> "MEDIUM"
      [] kind \in {"Commit", "Rollback"} -> "INFO"
      [] OTHER -> "any"

\* C26: for every estimate, -1 and values above the threshold included,
\* analyze_risk returns CRITICAL for DROP, HIGH for ALTER, CREATE, MERGE,
\* GRANT and REVOKE, MEDIUM for INSERT and ANALYZE, and INFO for COMMIT and
\* ROLLBACK: the level of these kinds does not depend on the estimate.
C26_FixedLevels ==
    /\ \A s \in RiskStatements, e \in Estimates :
            FixedLevel(s.kind) # "any" =>
                analyze_risk(s, e).risk_level = FixedLevel(s.kind)
    /\ (/\ pc = "decide"
        /\ LastStep.status = "success"
        /\ FixedLevel(cur.sql.kind) # "any") =>
            /\ cur.risk_level = FixedLevel(cur.sql.kind)
            /\ cur.risk_info.risk_level = FixedLevel(cur.sql.kind)

\* An INSERT estimated above the threshold was classified MEDIUM.
C26_Witness ==
    /\ pc = "decide"
    /\ cur.sql.kind = "Insert"
    /\ cur.estimated_rows > RowThreshold
    /\ LastStep.action = "analyze_risk"
    /\ cur.risk_level = "MEDIUM"

\* The positions of the run's events at which the statement was issued.
Issues == {i \in 1..Len(events) : events[i] = "exec"}

\* The session that issued the statement was rolled back: it raised.
ExecFailed ==
    /\ Len(events) >= 4
    /\ SubSeq(events, Len(events) - 3, Len(events))
            = SessionEvents("exec", FALSE)

\* C27: in every run the submitted statement is issued to the database at
\* most once, also when its execution fails; no stage issues it again.
C27_IssuedAtMostOnce ==
    /\ Cardinality(Issues) <= 1
    /\ ExecFailed => pc \in {"summarize", "save"}

\* An approved statement was issued once, raised, and the run went on to
\* its summary.
C27_Witness ==
    /\ pc = "summarize"
    /\ ExecFailed
    /\ Happened("approve")
    /\ Cardinality(Issues) = 1

\* C28: when the execution of the statement raises, the execute_sql step
\* is recorded with status error and the error text, the session is rolled
\* back and every table is as it was, the result of the run is null, and
\* the run still gets its summary and is persisted.
C28_FailedExecutionRecorded ==
    /\ [](ExecFailed =>
            /\ pc \in {"summarize", "save"}
            /\ LastStep.action = "execute_sql"
            /\ LastStep.status = "error"
            /\ LastStep.error # ""
            /\ db = db0
            /\ cur.result = NoResult
            /\ pc = "save" => cur.summary # <<>>)
    /\ [][(ExecFailed /\ pc' # pc) =>
            \/ pc = "summarize" /\ pc' = "save" /\ cur'.summary # <<>>
            \/ /\ pc = "save"
               /\ now \in DOMAIN runs'
               /\ runs'[now].intact
               /\ runs'[now].summary = cur.summary
               /\ runs'[now].execution_result = NoResult
               /\ runs'[now].execution_dag = cur.audit_steps]_vars

\* A DELETE was approved, its execution raised, and the run was saved with
\* the error step and no result.
C28_Witness ==
    /\ pc = "idle"
    /\ \E r \in DOMAIN runs :
        /\ runs[r].intact
        /\ runs[r].sql.kind = "Delete"
        /\ runs[r].execution_result = NoResult
        /\ runs[r].summary # <<>>
        /\ \E i \in 1..Len(runs[r].execution_dag) :
            /\ runs[r].execution_dag[i].action = "execute_sql"
            /\ runs[r].execution_dag[i].status = "error"
            /\ runs[r].execution_dag[i].error = "execution failed"
    /\ db = db0

\* The probe of the dry run was issued and raised.
ProbeFailed ==
    /\ Len(events) >= 4
    /\ SubSeq(events, 1, 4) = SessionEvents("probe", FALSE)

\* C29: whatever the input text, and whichever of statement analysis, dry
\* run, risk classification, snapshot creation and execution fails, the
\* failure is caught and recorded in the audit step of its stage, and the
\* call returns a result with a summary once the operator has answered
\* the prompt; it never raises to the caller.
C29_FailuresCaughtAndRecorded ==
    /\ [](Classified =>
            /\ ParseFails(cur.sql) =>
                    /\ cur.audit_steps[3].action = "analyze_risk"
                    /\ cur.audit_steps[3].outputs.reason = "SQL Parsing failed"
            /\ ProbeFailed =>
                    /\ cur.audit_steps[2].action = "dry_run"
                    /\ cur.audit_steps[2].outputs.estimated_rows = -1
            /\ cur.audit_steps[3].status = "error" =>
                    cur.risk_level = "UNKNOWN"
            /\ (SnapshotFailed /\ StepAt("create_snapshot") > 0) =>
                    cur.audit_steps[StepAt("create_snapshot")].status = "error"
            /\ ExecFailed =>
                    /\ LastStep.action = "execute_sql"
                    /\ LastStep.status = "error")
    /\ (pc = "dry_run") ~> (Returned /\ cur.summary # <<>>)

\* What a session is opened for.
SessionOps == {"probe", "capture", "exec", "restore"}

\* Every session in the trace ev is opened, used, then either committed or
\* rolled back, and closed; nothing of a session stands outside this.
Balanced(ev) ==
    \A i \in 1..Len(ev) :
        /\ ev[i] = "open" =>
            /\ i + 3 <= Len(ev)
            /\ ev[i + 1] \in SessionOps
            /\ ev[i + 2] \in {"commit", "rollback"}
            /\ ev[i + 3] = "close"
        /\ ev[i] \in SessionOps => i > 1 /\ ev[i - 1] = "open"
        /\ ev[i] \in {"commit", "rollback"} => i > 2 /\ ev[i - 2] = "open"
        /\ ev[i] = "close" => i > 3 /\ ev[i - 3] = "open"

\* The session opened for what was committed / rolled back.
Committed(what) ==
    \E i \in 1..(Len(events) - 1) :
        events[i] = what /\ events[i + 1] = "commit"

Aborted(what) ==
    \E i \in 1..(Len(events) - 1) :
        events[i] = what /\ events[i + 1] = "rollback"

\* C30: every session opened through DatabaseManager.session is committed
\* exactly when its block ends without an exception, rolled back exactly
\* when the block raises, and closed either way; once a pipeline, snapshot,
\* rollback or replay operation has returned or raised, no session it
\* opened is still open.
C30_SessionsScoped ==
    /\ Balanced(events)
    /\ (pc \in {"summarize", "save"} /\ Happened("exec")) =>
            /\ Committed("exec") <=> LastStep.status = "success"
            /\ Aborted("exec") <=> LastStep.status = "error"
    /\ (Classified /\ Happened("probe")) =>
            /\ Committed("probe") <=> cur.estimated_rows >= 0
            /\ Aborted("probe") <=> cur.estimated_rows = -1
    /\ (last.op = "rollback" /\ events # <<>>
            /\ events[1] \in {"confirm=True", "confirm=False"}) =>
            /\ Committed("restore") <=> last.status = "success"
            /\ Aborted("restore") <=> last.status = "failed"
    /\ (last.op = "replay" /\ events # <<>> /\ events[1] = "load_run") =>
            /\ Committed("exec") <=> last.status = "replayed"
            /\ Aborted("exec") <=> last.status = "error"
    /\ (last.op = "create_snapshot" /\ pc = "idle" /\ Len(events) >= 2
            /\ events[2] = "capture") =>
            /\ last.status = "ok" => Committed("capture")
            /\ Aborted("capture") => last.status = "failed"

\* A restore raised part-way: its session was rolled back and closed.
C30_Witness ==
    /\ last.op = "rollback"
    /\ last.status = "failed"
    /\ events = << "confirm=True", "load" >> \o SessionEvents("restore", FALSE)

\* The run is at the confirmation prompt, waiting for the operator.
Waiting == pc = "decide" /\ Route(cur.risk_level) = "confirm"

\* The sessions opened, and those closed, in the trace ev.
Opened(ev) == {i \in 1..Len(ev) : ev[i] = "open"}

Closed(ev) == {i \in 1..Len(ev) : ev[i] = "close"}

\* C31: while a run waits for the operator's answer it holds no open
\* session or transaction: the session of the dry run has been released
\* before the prompt, and the sessions of the snapshot and of the execution
\* are opened only after the approval.
C31_NoSessionHeldAtPrompt ==
    /\ Waiting =>
            /\ Balanced(events)
            /\ Cardinality(Opened(events)) = Cardinality(Closed(events))
            /\ ~Happened("capture")
            /\ ~Happened("exec")
    /\ \A i \in 1..Len(events) :
            events[i] = "prompt" =>
                /\ Balanced(SubSeq(events, 1, i - 1))
                /\ \A j \in 1..(i - 1) : events[j] \notin {"capture", "exec"}
                /\ \A j \in (i + 1)..Len(events) :
                        events[j] = "open" => Earlier("approve", j)

\* The probe of a DELETE was committed and its session closed; the run
\* waits at the prompt.
C31_Witness ==
    /\ Waiting
    /\ cur.sql.kind = "Delete"
    /\ events = SessionEvents("probe", TRUE)

\* The line the operator typed, when the step resolves the prompt.
Typed == events'[Len(events) + 2]

\* C32: the gate resolves to approval only on yes or y, and to
\* cancellation only on no or n, whatever the case and the surrounding
\* blanks; on any other input it asks again; and it never resolves by
\* itself, through the passing of time or a default answer.
C32_GateResolvesOnAnswerOnly ==
    [][Waiting =>
        \/ UNCHANGED <<pc, cur, events>>
        \/ /\ pc' = "snapshot"
           /\ events' = events \o << "prompt", Typed, "approve" >>
           /\ Typed \in {"y", " YES "}
        \/ /\ pc' = "summarize"
           /\ events' = events \o << "prompt", Typed, "deny" >>
           /\ Typed \in {"n", "No"}]_vars

\* The operator typed " YES " and the run went on to the snapshot.
C32_Witness ==
    /\ pc = "snapshot"
    /\ Len(events) >= 3
    /\ SubSeq(events, Len(events) - 2, Len(events))
            = << "prompt", " YES ", "approve" >>

\* Both concurrent submissions have returned.
BothDone == \A w \in Workers : pc[w] = "done"

\* C33: two submissions that run concurrently under distinct run ids and
\* snapshot ids do not disturb each other: each persisted run holds only
\* its own audit steps, and when both have finished both run records, both
\* snapshot records and both entries of the snapshot log are there, intact.
C33_ConcurrentRunsIndependent ==
    BothDone =>
        \A w \in Workers :
            /\ CanLoadRun(runs, IdOf(w))
            /\ runs[IdOf(w)].sql = cur[w].locals.sql
            /\ runs[IdOf(w)].execution_dag = cur[w].locals.audit_steps
            /\ runs[IdOf(w)].snapshot_id = IdOf(w)
            /\ CanLoad(snapshots, IdOf(w))
            /\ \E i \in 1..Len(snapLog) : snapLog[i].snapshot_id = IdOf(w)

\* list_snapshots() has just returned; last.status holds the list.
Listed == last.op = "list_snapshots"

Recorded ==
    [i \in 1..Len(cur.audit_steps) |->
        << cur.audit_steps[i].step_id, cur.audit_steps[i].action,
           cur.audit_steps[i].status >>]

\* The three steps every run starts with.
FirstThree(a) ==
    /\ Len(a) >= 3
    /\ a[1][1] = 1 /\ a[1][2] = "precheck"
    /\ a[2][1] = 2 /\ a[2][2] = "dry_run"
    /\ a[3][1] = 3 /\ a[3][2] = "analyze_risk"

\* The pipeline has passed its last stage.
StagesDone == pc \in {"summarize", "save"}

PreExecute == IF last.op = "write" THEN last.before ELSE db0

\* The saved run that took snapshot id and executed its statement.
ExecutedWith(id) ==
    \E r \in DOMAIN runs :
        /\ CanLoadRun(runs, r)
        /\ runs[r].snapshot_id = id
        /\ runs[r].execution_dag[Len(runs[r].execution_dag)].action =
                "execute_sql"
        /\ runs[r].execution_dag[Len(runs[r].execution_dag)].status =
                "success"

\* C36: restoring the snapshot of an approved run, after the run's
\* statement was executed, returns the tables to the state immediately
\* before the run's execute step, also when another run executed between
\* the run's snapshot step and its execute step.  (Stated for snapshots
\* that hold every row of every table.)
C36_RestoreUndoesOwnStatement ==
    [][(/\ nCalls = 0
        /\ last'.op = "rollback"
        /\ last'.status = "success"
        /\ ExecutedWith(last'.id)
        /\ CanLoad(snapshots, last'.id)
        /\ \A n \in TableNames : ~snapshots[last'.id].tables[n].has_more)
            => db' = PreExecute]_vars

\* The statement the record of the replayed run yields: the stored one,
\* or else the one in the inputs of the first execute_sql step.
Recovered ==
    LET run == runs[last.id]
        first == CHOOSE i \in 0..Len(run.execution_dag) :
                    /\ i > 0 => run.execution_dag[i].action = "execute_sql"
                    /\ \A j \in 1..Len(run.execution_dag) :
                            run.execution_dag[j].action = "execute_sql" =>
                                i > 0 /\ i <= j
    IN  IF run.sql # NoSql THEN run.sql
        ELSE IF first = 0 THEN NoSql
        ELSE run.execution_dag[first].inputs.sql

\* C37: replay uses the statement stored in the run record when there is
\* one, and otherwise the statement in the inputs of the record's first
\* execute_sql step; with neither it returns status "error" and issues
\* nothing; the read-only check is applied to the recovered statement.
C37_ReplayRecoversStatement ==
    (last.op = "replay" /\ CanLoadRun(runs, last.id)) =>
        /\ Recovered = NoSql =>
                /\ last.status = "error"
                /\ events = << "load_run" >>
                /\ db = last.before
        /\ (Recovered # NoSql /\ ~is_read_only(Recovered)) =>
                /\ last.status = "blocked"
                /\ events = << "load_run" >>
                /\ db = last.before
        /\ (Recovered # NoSql /\ is_read_only(Recovered)) =>
                /\ last.status \in {"replayed", "error"}
                /\ Len(events) > 1
                /\ events[2] = "open"
                /\ last.status = "replayed" =>
                        last.result_count =
                            Len(run_sql(dialect, last.before, Recovered,
                                        FALSE).rows)

C37_Witness ==
    /\ last.op = "replay"
    /\ last.status = "replayed"
    /\ runs[0].sql = NoSql
    /\ Len(runs[0].execution_dag) = 2
    /\ runs[0].execution_dag[1].action = "analyze_risk"
    /\ runs[0].execution_dag[2].action = "execute_sql"
    /\ last.result_count > 0

\* C38: a snapshot is created only in an approved run.  Direct runs (LOW,
\* INFO), refused runs (UNKNOWN) and cancelled runs leave the snapshot
\* store and the snapshot log unchanged and have a null snapshot_id.
C38_SnapshotOnlyWhenApproved ==
    /\ []((pc # "idle" /\ ~Happened("approve")) => cur.snapshot_id = NoId)
    /\ []((StagesDone /\ (\/ cur.risk_level \in {"LOW", "INFO"}
                          \/ UnknownLevel
                          \/ Happened("deny"))) =>
                /\ ~Happened("approve")
                /\ cur.snapshot_id = NoId
                /\ \A i \in 1..Len(cur.audit_steps) :
                        cur.audit_steps[i].action # "create_snapshot")
    /\ [][(\/ snapshots' # snapshots
           \/ snapLog' # snapLog
           \/ (pc # "idle" /\ pc' # "idle"
                    /\ cur'.snapshot_id # cur.snapshot_id)) =>
                /\ Happened("approve")
                /\ pc = "snapshotting"]_vars

C38_Witness ==
    /\ pc = "save"
    /\ Happened("deny")
    /\ cur.sql.kind = "Delete"
    /\ cur.snapshot_id = NoId
    /\ snapshots = <<>>
    /\ snapLog = <<>>

\* C39: in every returned run the execution result is non-null only if the
\* last audit step is execute_sql with status success; refused, cancelled
\* and failed runs have a null result and no successful execute_sql step.
C39_ResultOnlyAfterSuccess ==
    /\ (pc # "idle" /\ ~StagesDone) => cur.result.none
    /\ StagesDone =>
        /\ ~cur.result.none =>
                /\ LastStep.action = "execute_sql"
                /\ LastStep.status = "success"
        /\ (\/ UnknownLevel
            \/ Happened("deny")
            \/ LastStep.status = "error") =>
                /\ cur.result.none
                /\ \A i \in 1..Len(cur.audit_steps) :
                        ~(/\ cur.audit_steps[i].action = "execute_sql"
                          /\ cur.audit_steps[i].status = "success")

C39_Witness ==
    /\ pc = "save"
    /\ Happened("approve")
    /\ LastStep.action = "execute_sql"
    /\ LastStep.status = "error"
    /\ cur.audit_steps[5].status = "success"
    /\ cur.result.none

\* C40: the rewriter and the classifier agree: every statement that gets a
\* counting probe, a UNION included, is classified at a level other than
\* UNKNOWN, and no statement is both probed and refused as unrecognized.
C40_ProbedIsClassified ==
    /\ (Analyzed /\ cur.dry_run_sql # NoProbe) => ~UnknownLevel
    /\ (StagesDone /\ Happened("probe")) =>
            LastStep.error # "Unrecognized SQL type, execution refused"

====
